---- MODULE Spec2Model ----
(***************************************************************************)
(* A model of the markdown half of prosemirror-rs: the content-match       *)
(* grammar (content.rs, schema.rs), the tree builder (from_markdown.rs),   *)
(* the tree-to-event serializer (to_markdown.rs) and the text printer      *)
(* (print_markdown.rs).  Each component has its own specification over the *)
(* variables it owns; the variables of the other components stay idle.     *)
(***************************************************************************)
EXTENDS Integers, Sequences, FiniteSets, TLC

VARIABLES
    \* content grammar: one call of valid_content / match_fragment_range
    content_call, content_ret,
    \* content grammar: one call of compatible
    compat_self, compat_other, compat_ret,
    \* MarkdownDeserializer: the frame stack and the ambient mark set
    stack, mark_set,
    \* deserialize: the event being processed, the number of events consumed
    \* and the Result that from_markdown returns
    event, nevents, returned,
    \* to_markdown: the tree being rendered, the MarkdownSerializer walking it,
    \* the events its next() has returned so far, and whether it returned None
    doc, serializer, emitted, exhausted,
    \* Printer::print: the Printer and the events it has been handed
    printer, printed,
    \* one whole run of deserialize: the events of the tokenizer it is handed
    \* and the Result it returns
    tokens, built

content_vars == <<content_call, content_ret>>
compat_vars == <<compat_self, compat_other, compat_ret>>
parser_vars == <<stack, mark_set, event, nevents, returned>>
serializer_vars == <<doc, serializer, emitted, exhausted>>
printer_vars == <<printer, printed>>
builder_vars == <<tokens, built>>
vars == <<content_call, content_ret, compat_self, compat_other, compat_ret,
          stack, mark_set, event, nevents, returned,
          doc, serializer, emitted, exhausted, printer, printed,
          tokens, built>>

\* Option::None, and the value of a result that has not been produced yet
None == "None"
Unset == <<>>
Returned(value) == <<value>>

\* u64 and usize values whose width matters are written as their decimal
\* digits, most significant first
U32Max == <<4, 2, 9, 4, 9, 6, 7, 2, 9, 5>>
U64Max == <<1, 8, 4, 4, 6, 7, 4, 4, 0, 7, 3, 7, 0, 9, 5, 5, 1, 6, 1, 5>>

RECURSIVE DigitsLessEq(_, _)
DigitsLessEq(a, b) ==
    IF a = <<>> THEN TRUE
    ELSE IF Head(a) # Head(b) THEN Head(a) < Head(b)
    ELSE DigitsLessEq(Tail(a), Tail(b))

NumberLessEq(a, b) == Len(a) < Len(b) \/ (Len(a) = Len(b) /\ DigitsLessEq(a, b))

\* the width of usize on the targets of the crate
UsizeBits == {32, 64}
\* usize::try_from(u64) succeeds
FitsUsize(number, usize_bits) ==
    NumberLessEq(number, IF usize_bits = 32 THEN U32Max ELSE U64Max)

(***************************************************************************)
(* Bounds of the model                                                     *)
(***************************************************************************)
\* longest child fragment handed to the grammar engine
MaxFragLen == 2
\* longest event stream fed to the tree builder
MaxEvents == 3

(***************************************************************************)
(* schema.rs: node types, mark types                                       *)
(***************************************************************************)
MarkdownNodeType ==
    { "Doc", "Heading", "CodeBlock", "Text", "Blockquote", "Paragraph",
      "BulletList", "OrderedList", "ListItem", "HorizontalRule", "HardBreak",
      "Image", "FootnoteDefinition", "TaskListMarker", "Metadata", "Table",
      "TableHead", "TableRow", "TableCell", "HTML_inline", "HTML_block" }

_allow_marks(self) ==
    CASE self \in {"Doc", "Blockquote", "BulletList", "OrderedList", "ListItem"} -> FALSE
      [] self = "CodeBlock" -> FALSE
      [] self \in {"Heading", "Paragraph"} -> TRUE
      [] self = "FootnoteDefinition" -> TRUE
      [] self = "Metadata" -> FALSE
      [] self \in {"TableCell", "TableHead", "TableRow", "Table"} -> TRUE
      [] self \in {"Text", "TaskListMarker", "HorizontalRule", "HardBreak", "Image"} -> TRUE
      [] self \in {"HTML_inline", "HTML_block"} -> TRUE

allow_marks(self, marks) == _allow_marks(self)

is_block(self) ==
    CASE self = "Doc" -> TRUE
      [] self = "Heading" -> FALSE
      [] self = "CodeBlock" -> TRUE
      [] self = "Text" -> FALSE
      [] self = "Blockquote" -> TRUE
      [] self = "Paragraph" -> TRUE
      [] self = "BulletList" -> TRUE
      [] self = "OrderedList" -> TRUE
      [] self = "ListItem" -> FALSE
      [] self = "HorizontalRule" -> TRUE
      [] self = "HardBreak" -> FALSE
      [] self = "Image" -> FALSE
      [] self = "FootnoteDefinition" -> TRUE
      [] self = "TaskListMarker" -> FALSE
      [] self = "Metadata" -> TRUE
      [] self = "Table" -> TRUE
      [] self = "TableHead" -> FALSE
      [] self = "TableRow" -> FALSE
      [] self = "TableCell" -> FALSE
      [] self = "HTML_inline" -> FALSE
      [] self = "HTML_block" -> TRUE

\* NodeType::is_inline, the trait's default: not a block
is_inline(self) == ~is_block(self)

(***************************************************************************)
(* node.rs: the classification of a node, a node seen through its variant  *)
(* and its children                                                        *)
(***************************************************************************)
\* the variants of MarkdownNode
MarkdownNodeVariant == MarkdownNodeType \ {"HTML_inline", "HTML_block"}

\* Node::is_block for MarkdownNode
node_is_block(self) ==
    CASE self.type = "Doc" -> TRUE
      [] self.type = "Paragraph" -> TRUE
      [] self.type = "Blockquote" -> TRUE
      [] self.type = "HorizontalRule" -> TRUE
      [] self.type = "Heading" -> TRUE
      [] self.type = "CodeBlock" -> TRUE
      [] self.type = "OrderedList" -> TRUE
      [] self.type = "BulletList" -> TRUE
      [] self.type = "ListItem" -> TRUE
      [] self.type = "Text" -> FALSE
      [] self.type = "Image" -> FALSE
      [] self.type = "HardBreak" -> FALSE
      [] self.type = "TaskListMarker" -> FALSE
      [] self.type = "FootnoteDefinition" -> TRUE
      [] self.type = "Metadata" -> TRUE
      [] self.type = "Table" -> TRUE
      [] self.type \in {"TableCell", "TableHead", "TableRow"} -> TRUE

\* Node::type for MarkdownNode: every variant has the type of its name
node_type(self) ==
    CASE self.type = "Doc" -> "Doc"
      [] self.type = "Paragraph" -> "Paragraph"
      [] self.type = "Blockquote" -> "Blockquote"
      [] self.type = "HorizontalRule" -> "HorizontalRule"
      [] self.type = "Heading" -> "Heading"
      [] self.type = "CodeBlock" -> "CodeBlock"
      [] self.type = "OrderedList" -> "OrderedList"
      [] self.type = "BulletList" -> "BulletList"
      [] self.type = "ListItem" -> "ListItem"
      [] self.type = "Text" -> "Text"
      [] self.type = "Image" -> "Image"
      [] self.type = "HardBreak" -> "HardBreak"
      [] self.type = "FootnoteDefinition" -> "FootnoteDefinition"
      [] self.type = "TaskListMarker" -> "TaskListMarker"
      [] self.type = "Metadata" -> "Metadata"
      [] self.type = "Table" -> "Table"
      [] self.type = "TableHead" -> "TableHead"
      [] self.type = "TableRow" -> "TableRow"
      [] self.type = "TableCell" -> "TableCell"

(***************************************************************************)
(* content.rs: the content-match automaton                                 *)
(***************************************************************************)
MarkdownContentMatch ==
    { "Star", "InlineStar", "BlockPlus", "BlockStar", "OrTextImageStar",
      "TextStar", "ListItemPlus", "ListItemStar", "ParagraphBlockStar", "Empty" }

then_some(cond, value) == IF cond THEN value ELSE None

\* a plausible slip: ParagraphBlockStar takes any block as its first child
match_type_any_first_block(self, type) ==
    CASE self = "Star" -> "Star"
      [] self = "InlineStar" -> then_some(is_inline(type), "InlineStar")
      [] self \in {"BlockPlus", "BlockStar"} -> then_some(is_block(type), "BlockStar")
      [] self = "OrTextImageStar" -> then_some(type \in {"Text", "Image"}, "OrTextImageStar")
      [] self = "TextStar" -> then_some(type = "Text", "TextStar")
      [] self \in {"ListItemPlus", "ListItemStar"} -> then_some(type = "ListItem", "ListItemStar")
      [] self = "ParagraphBlockStar" -> then_some(is_block(type), "BlockStar")
      [] self = "Empty" -> None

match_type(self, type) ==
    CASE self = "Star" -> "Star"
      [] self = "InlineStar" -> then_some(is_inline(type), "InlineStar")
      [] self \in {"BlockPlus", "BlockStar"} -> then_some(is_block(type), "BlockStar")
      [] self = "OrTextImageStar" -> then_some(type \in {"Text", "Image"}, "OrTextImageStar")
      [] self = "TextStar" -> then_some(type = "Text", "TextStar")
      [] self \in {"ListItemPlus", "ListItemStar"} -> then_some(type = "ListItem", "ListItemStar")
      [] self = "ParagraphBlockStar" -> then_some(type = "Paragraph", "BlockStar")
      [] self = "Empty" -> None

\* a plausible slip: a rejected child is skipped instead of ending the match
RECURSIVE match_children_skipping(_, _, _, _)
match_children_skipping(test, children, i, end) ==
    IF i > end THEN test
    ELSE LET next == match_type(test, children[i].type)
         IN  IF next = None
             THEN match_children_skipping(test, children, i + 1, end)
             ELSE match_children_skipping(next, children, i + 1, end)

\* the loop of match_fragment_range over children[i..end] (1-based, inclusive)
RECURSIVE match_children(_, _, _, _)
match_children(test, children, i, end) ==
    IF i > end THEN test
    ELSE LET next == match_type(test, children[i].type)
         IN  IF next = None THEN None
             ELSE match_children(next, children, i + 1, end)

\* range start..end is half-open and 0-based, as a Rust slice range
match_fragment_range(self, fragment, start, end) ==
    match_children(self, fragment, start + 1, end)

\* ContentMatch::match_fragment, the trait's default: the whole fragment
match_fragment(self, fragment) ==
    match_fragment_range(self, fragment, 0, Len(fragment))

\* a plausible slip: BlockPlus accepts before its first block has been seen
valid_end_accepting_block_plus(self) == self # "ListItemPlus"

valid_end(self) ==
    CASE self = "Star" -> TRUE
      [] self = "InlineStar" -> TRUE
      [] self = "BlockPlus" -> FALSE
      [] self = "BlockStar" -> TRUE
      [] self = "OrTextImageStar" -> TRUE
      [] self = "TextStar" -> TRUE
      [] self = "ListItemPlus" -> FALSE
      [] self = "ListItemStar" -> TRUE
      [] self = "ParagraphBlockStar" -> TRUE
      [] self = "Empty" -> TRUE

\* a plausible slip: ParagraphBlockStar given the same list as BlockPlus/BlockStar
compatible_symmetric_blocks(self, other) ==
    CASE self = "Star" -> TRUE
      [] self \in {"InlineStar", "OrTextImageStar", "TextStar"} ->
            other \in {"InlineStar", "OrTextImageStar", "TextStar"}
      [] self \in {"BlockPlus", "BlockStar", "ParagraphBlockStar"} ->
            other \in {"BlockPlus", "ParagraphBlockStar", "BlockStar"}
      [] self \in {"ListItemPlus", "ListItemStar"} ->
            other \in {"ListItemPlus", "ListItemStar"}
      [] self = "Empty" -> FALSE

compatible(self, other) ==
    CASE self = "Star" -> TRUE
      [] self = "InlineStar" -> other \in {"InlineStar", "OrTextImageStar", "TextStar"}
      [] self \in {"BlockPlus", "BlockStar"} ->
            other \in {"BlockPlus", "ParagraphBlockStar", "BlockStar"}
      [] self = "OrTextImageStar" -> other \in {"InlineStar", "OrTextImageStar", "TextStar"}
      [] self = "TextStar" -> other \in {"InlineStar", "OrTextImageStar", "TextStar"}
      [] self \in {"ListItemPlus", "ListItemStar"} ->
            other \in {"ListItemPlus", "ListItemStar"}
      [] self = "ParagraphBlockStar" -> other \in {"BlockPlus", "ParagraphBlockStar"}
      [] self = "Empty" -> FALSE

content_match(self) ==
    CASE self = "Doc" -> "Star"
      [] self = "Heading" -> "OrTextImageStar"
      [] self = "CodeBlock" -> "TextStar"
      [] self = "Text" -> "Empty"
      [] self = "Blockquote" -> "BlockPlus"
      [] self = "Paragraph" -> "InlineStar"
      [] self = "BulletList" -> "ListItemPlus"
      [] self = "OrderedList" -> "ListItemPlus"
      [] self = "ListItem" -> "ParagraphBlockStar"
      [] self = "HorizontalRule" -> "Empty"
      [] self = "HardBreak" -> "Empty"
      [] self = "Image" -> "Empty"
      [] self = "FootnoteDefinition" -> "InlineStar"
      [] self = "TaskListMarker" -> "Empty"
      [] self = "Metadata" -> "TextStar"
      [] self = "Table" -> "BlockPlus"
      [] self = "TableHead" -> "BlockPlus"
      [] self = "TableRow" -> "BlockPlus"
      [] self = "TableCell" -> "InlineStar"
      [] self = "HTML_inline" -> "InlineStar"
      [] self = "HTML_block" -> "BlockStar"

(***************************************************************************)
(* node.rs: Node::marks.  An Option is modelled as a set of at most one    *)
(* element; the accessor answers None for every node variant, also for a   *)
(* Text node whose TextNode carries marks.                                 *)
(***************************************************************************)
marks(node) == {}

\* schema.rs: valid_content
valid_content(self, fragment) ==
    LET result == match_fragment(content_match(self), fragment)
    IN  IF result # None
        THEN IF valid_end(result)
             THEN IF \E i \in 1..Len(fragment) :
                        {m \in marks(fragment[i]) : ~allow_marks(self, m)} # {}
                  THEN FALSE
                  ELSE TRUE
             ELSE FALSE
        ELSE FALSE

(***************************************************************************)
(* Inputs of the grammar engine: a child is a node seen through its type   *)
(* and, for a Text node, the marks of its TextNode (an ordered list of     *)
(* marks without duplicates).                                              *)
(***************************************************************************)
GrammarChildren ==
    [type : MarkdownNodeType, marks : {<<>>}]
        \cup [type : {"Text"}, marks : {<<[type |-> "Strong"]>>}]

GrammarFragments == UNION {[1..n -> GrammarChildren] : n \in 0..MaxFragLen}

ContentCalls ==
    [op : {"valid_content"}, self : MarkdownNodeType, fragment : GrammarFragments,
     start : {0}, end : {0}]
    \cup
    {c \in [op : {"match_fragment_range"}, self : MarkdownContentMatch,
            fragment : GrammarFragments, start : 0..MaxFragLen, end : 0..MaxFragLen] :
        c.start <= c.end /\ c.end <= Len(c.fragment)}
    \cup
    [op : {"valid_end"}, self : MarkdownContentMatch, fragment : {<<>>},
     start : {0}, end : {0}]

ContentInit ==
    /\ content_call \in ContentCalls
    /\ content_ret = Unset

CompatInit ==
    /\ compat_self \in MarkdownContentMatch
    /\ compat_other \in MarkdownContentMatch
    /\ compat_ret = Unset

ContentIdle ==
    /\ content_call = [op |-> "idle", self |-> None, fragment |-> <<>>, start |-> 0, end |-> 0]
    /\ content_ret = Unset
CompatIdle == compat_self = None /\ compat_other = None /\ compat_ret = Unset

CallValidContent ==
    /\ content_ret = Unset
    /\ content_call.op = "valid_content"
    /\ content_ret' = Returned(valid_content(content_call.self, content_call.fragment))
    /\ UNCHANGED <<content_call, compat_vars, parser_vars, serializer_vars, printer_vars,
                   builder_vars>>

CallMatchFragmentRange ==
    /\ content_ret = Unset
    /\ content_call.op = "match_fragment_range"
    /\ content_ret' = Returned(match_fragment_range(content_call.self, content_call.fragment,
                                                    content_call.start, content_call.end))
    /\ UNCHANGED <<content_call, compat_vars, parser_vars, serializer_vars, printer_vars,
                   builder_vars>>

CallValidEnd ==
    /\ content_ret = Unset
    /\ content_call.op = "valid_end"
    /\ content_ret' = Returned(valid_end(content_call.self))
    /\ UNCHANGED <<content_call, compat_vars, parser_vars, serializer_vars, printer_vars,
                   builder_vars>>

CallCompatible ==
    /\ compat_ret = Unset
    /\ compat_ret' = Returned(compatible(compat_self, compat_other))
    /\ UNCHANGED <<compat_self, compat_other, content_vars, parser_vars,
                   serializer_vars, printer_vars, builder_vars>>

ContentNext == CallValidContent \/ CallMatchFragmentRange \/ CallValidEnd
CompatNext == CallCompatible

\* inputs: a node of every variant with the children of the grammar's inputs,
\* asked for its classification or for its type
NodeCalls ==
    [op : {"is_block", "type"}, self : MarkdownNodeVariant, fragment : GrammarFragments,
     start : {0}, end : {0}]

\* the node of a call
CalledNode == [type |-> content_call.self, content |-> content_call.fragment]

NodeInit ==
    /\ content_call \in NodeCalls
    /\ content_ret = Unset

CallNodeIsBlock ==
    /\ content_ret = Unset
    /\ content_call.op = "is_block"
    /\ content_ret' = Returned(node_is_block(CalledNode))
    /\ UNCHANGED <<content_call, compat_vars, parser_vars, serializer_vars, printer_vars,
                   builder_vars>>

CallNodeType ==
    /\ content_ret = Unset
    /\ content_call.op = "type"
    /\ content_ret' = Returned(node_type(CalledNode))
    /\ UNCHANGED <<content_call, compat_vars, parser_vars, serializer_vars, printer_vars,
                   builder_vars>>

NodeNext == CallNodeIsBlock \/ CallNodeType

(***************************************************************************)
(* from_markdown.rs: the tree builder                                      *)
(***************************************************************************)
\* Text payloads are sequences of characters; Backtick stands for the
\* character U+0060, which a string of the model cannot hold
Newline == "\n"
Backtick == "backtick"

\* marks (mark.rs)
MarkStrong == [type |-> "Strong"]
MarkEm == [type |-> "Em"]
MarkCode == [type |-> "Code"]
MarkStrikethrough == [type |-> "Strikethrough"]
MarkHtmlTag == [type |-> "HtmlTag"]
MarkLink(href, title) == [type |-> "Link", href |-> href, title |-> title]
MarkFootnote(label) == [type |-> "Footnote", label |-> label]

\* MarkSet (crate::model): marks without duplicates, in insertion order
MarkSetContains(set, mark) == \E i \in 1..Len(set) : set[i] = mark
MarkSetAdd(set, mark) == IF MarkSetContains(set, mark) THEN set ELSE Append(set, mark)
MarkSetRemove(set, mark) == SelectSeq(set, LAMBDA m : m # mark)
MarkSetRemoveMatching(set, mark_type) == SelectSeq(set, LAMBDA m : m.type # mark_type)

\* Attrs (from_markdown.rs), the kind of an open frame with its attributes
AttrsDoc == [kind |-> "Doc"]
AttrsParagraph == [kind |-> "Paragraph"]
AttrsHeading(level) == [kind |-> "Heading", level |-> level]
AttrsBlockquote == [kind |-> "Blockquote"]
AttrsCodeBlock(params) == [kind |-> "CodeBlock", params |-> params]
AttrsOrderedList(order) == [kind |-> "OrderedList", order |-> order, tight |-> FALSE]
AttrsBulletList == [kind |-> "BulletList", tight |-> FALSE]
AttrsListItem == [kind |-> "ListItem"]
AttrsImage(src, alt, title) == [kind |-> "Image", src |-> src, alt |-> alt, title |-> title]
AttrsFootnoteDefinition(label) == [kind |-> "FootnoteDefinition", label |-> label]
AttrsMetadata == [kind |-> "Metadata"]
AttrsTable(alignment) == [kind |-> "Table", alignment |-> alignment]
AttrsTableHead == [kind |-> "TableHead"]
AttrsTableRow == [kind |-> "TableRow"]
AttrsTableCell == [kind |-> "TableCell"]
NoAttrs == [kind |-> "None"]

\* MarkdownNode (node.rs): every variant as one record shape
Node(type, attrs, content, text, node_marks) ==
    [type |-> type, attrs |-> attrs, content |-> content, text |-> text, marks |-> node_marks]
Block(type, content) == Node(type, NoAttrs, content, <<>>, <<>>)
AttrNode(type, attrs, content) == Node(type, attrs, content, <<>>, <<>>)
Leaf(type, attrs) == Node(type, attrs, <<>>, <<>>, <<>>)
TextNode(text, node_marks) == Node("Text", NoAttrs, <<>>, text, node_marks)

\* FromMarkdownError and the Result of the parse
StackEmpty == [err |-> "StackEmpty"]
LevelMismatch == [err |-> "LevelMismatch"]
MisplacedEndTag(expected, attrs) ==
    [err |-> "MisplacedEndTag", expected |-> expected, attrs |-> attrs]
Ok(value) == [kind |-> "Ok", value |-> value]
Err(error) == [kind |-> "Err", value |-> error]

\* the events of the tokenizer
Start(tag) == [ev |-> "Start", tag |-> tag]
End(tag) == [ev |-> "End", tag |-> tag]
TextEvent(kind, text) == [ev |-> kind, text |-> text]
LeafEvent(kind) == [ev |-> kind]
TaskListMarkerEvent(checked) == [ev |-> "TaskListMarker", checked |-> checked]
NoEvent == [ev |-> "None"]
EndOfStreamEvent == [ev |-> "EndOfStream"]

\* inputs: the payloads the model draws events from
TextPayloads == {<<"a">>, <<"a", Newline>>}
HeadingLevels == {1, 2}
FenceParams == {<<"r">>}
\* a list's first ordinal is a u64: 1, and 4294967296 (one more than U32Max)
ListOrders == {<<1>>, <<4, 2, 9, 4, 9, 6, 7, 2, 9, 6>>}
Labels == {<<"f">>}
Urls == {<<"u">>, <<"v">>}
Titles == {<<>>}
Alignments == {<<"None">>}
MetadataBlockKinds == {"YamlStyle", "PlusesStyle"}

Top(stk) == stk[Len(stk)]
Rest(stk) == SubSeq(stk, 1, Len(stk) - 1)

push_stack(stk, attrs) == Append(stk, [content |-> <<>>, attrs |-> attrs])

\* add_content on a non-empty stack: the node is pushed on the last frame
add_content(stk, node) ==
    [stk EXCEPT ![Len(stk)].content = Append(@, node)]

\* Text::remove_last_newline (crate::model): one trailing newline is dropped
remove_last_newline(text) ==
    IF text # <<>> /\ text[Len(text)] = Newline THEN SubSeq(text, 1, Len(text) - 1) ELSE text

\* content.last_mut() is a Text node: its trailing newline is removed
trim_last_text(content) ==
    IF content # <<>> /\ content[Len(content)].type = "Text"
    THEN [content EXCEPT ![Len(content)].text = remove_last_newline(@)]
    ELSE content

\* Node::text_content (crate::model): the text of a node and its descendants
RECURSIVE text_content(_)
RECURSIVE concat_text_content(_)
concat_text_content(content) ==
    IF content = <<>> THEN <<>>
    ELSE text_content(Head(content)) \o concat_text_content(Tail(content))
text_content(node) ==
    IF node.type = "Text" THEN node.text ELSE concat_text_content(node.content)

\* the for loop of deserialize is still running: no return has been taken
\* (a slip: the loop goes on after an error has been recorded)
RunningAfterReturn == nevents < MaxEvents
Running == returned = Unset /\ nevents < MaxEvents

\* the loop takes the next event
Take(e) ==
    /\ event' = e
    /\ nevents' = nevents + 1
    /\ UNCHANGED <<content_vars, compat_vars, serializer_vars, printer_vars, builder_vars>>

\* the loop body ends without a return
Continue(new_stack, new_mark_set) ==
    /\ stack' = new_stack
    /\ mark_set' = new_mark_set
    /\ returned' = returned

\* deserialize returns; from_markdown drops the deserializer with its result
Return(value) ==
    /\ returned' = Returned(value)
    /\ stack' = <<>>
    /\ mark_set' = <<>>

\* self.add_content(node)?
AddContent(stk, node) ==
    IF stk = <<>> THEN Return(Err(StackEmpty))
    ELSE Continue(add_content(stk, node), mark_set)

\* an End arm: pop_stack()?, then the frame is wrapped and added to the new
\* top frame when its attrs match, and the parse fails when they do not
\* (kinds: the Attrs variants the arm accepts; node: the node the arm builds
\* from the popped frame, Top(stack))
CloseFrame(kinds, node, expected) ==
    IF stack = <<>> THEN Return(Err(StackEmpty))
    ELSE IF Top(stack).attrs.kind \in kinds
         THEN AddContent(Rest(stack), node)
         ELSE Return(Err(MisplacedEndTag(expected, Top(stack).attrs)))

ParserInit ==
    /\ stack = push_stack(<<>>, AttrsDoc)
    /\ mark_set = <<>>
    /\ event = NoEvent
    /\ nevents = 0
    /\ returned = Unset

ParserIdle ==
    /\ stack = <<>>
    /\ mark_set = <<>>
    /\ event = NoEvent
    /\ nevents = 0
    /\ returned = Unset

\* Event::Start of a tag that opens a frame
StartFrame(tag, attrs) ==
    /\ Running
    /\ Take(Start(tag))
    /\ Continue(push_stack(stack, attrs), mark_set)

StartParagraph == StartFrame([name |-> "Paragraph"], AttrsParagraph)

StartHeading ==
    \E level \in HeadingLevels :
        StartFrame([name |-> "Heading", level |-> level], AttrsHeading(level))

StartBlockQuote == StartFrame([name |-> "BlockQuote"], AttrsBlockquote)

StartCodeBlock ==
    \/ \E params \in FenceParams :
         StartFrame([name |-> "CodeBlock", kind |-> "Fenced", params |-> params],
                    AttrsCodeBlock(params))
    \/ StartFrame([name |-> "CodeBlock", kind |-> "Indented", params |-> <<>>],
                  AttrsCodeBlock(<<>>))

\* Tag::List: order.try_into()? turns the u64 ordinal into a usize and fails
\* when it does not fit
StartList ==
    \/ StartFrame([name |-> "List", ord |-> <<>>], AttrsBulletList)
    \/ \E order \in ListOrders, usize_bits \in UsizeBits :
         IF FitsUsize(order, usize_bits)
         THEN StartFrame([name |-> "List", ord |-> <<order>>], AttrsOrderedList(order))
         ELSE /\ Running
              /\ Take(Start([name |-> "List", ord |-> <<order>>]))
              /\ Return(Err(LevelMismatch))

StartItem == StartFrame([name |-> "Item"], AttrsListItem)

StartFootnoteDefinition ==
    \E label \in Labels :
        StartFrame([name |-> "FootnoteDefinition", label |-> label],
                   AttrsFootnoteDefinition(label))

StartTable ==
    \E alignment \in Alignments :
        StartFrame([name |-> "Table", alignment |-> alignment], AttrsTable(alignment))

StartTableHead == StartFrame([name |-> "TableHead"], AttrsTableHead)
StartTableRow == StartFrame([name |-> "TableRow"], AttrsTableRow)
StartTableCell == StartFrame([name |-> "TableCell"], AttrsTableCell)
StartMetadataBlock ==
    \E kind \in MetadataBlockKinds :
        StartFrame([name |-> "MetadataBlock", kind |-> kind], AttrsMetadata)

StartImage ==
    \E src \in Urls, title \in Titles :
        StartFrame([name |-> "Image", dest_url |-> src, title |-> title],
                   AttrsImage(src, <<>>, title))

\* a plausible slip: an inline mark opens a frame as a block tag does
StartMarkPushingFrame(tag, mark) ==
    /\ Running
    /\ Take(Start(tag))
    /\ Continue(push_stack(stack, AttrsParagraph), MarkSetAdd(mark_set, mark))

\* Event::Start of an inline mark: the mark joins the ambient set
StartMark(tag, mark) ==
    /\ Running
    /\ Take(Start(tag))
    /\ Continue(stack, MarkSetAdd(mark_set, mark))

StartEmphasis == StartMark([name |-> "Emphasis"], MarkEm)
StartStrong == StartMark([name |-> "Strong"], MarkStrong)
StartStrikethrough == StartMark([name |-> "Strikethrough"], MarkStrikethrough)
StartLink ==
    \E href \in Urls, title \in Titles :
        StartMark([name |-> "Link", dest_url |-> href, title |-> title], MarkLink(href, title))

StartHtmlBlock ==
    /\ Running
    /\ Take(Start([name |-> "HtmlBlock"]))
    /\ Continue(stack, mark_set)

\* Event::End of a tag that closes a frame
EndParagraph ==
    /\ Running
    /\ Take(End([name |-> "Paragraph"]))
    /\ CloseFrame({"Paragraph"},
                  Block("Paragraph", Top(stack).content),
                  "Paragraph")

\* a slip: the error names the popped frame instead of the end tag
EndHeadingNamingFrame ==
    /\ Running
    /\ \E level \in HeadingLevels : Take(End([name |-> "Heading", level |-> level]))
    /\ CloseFrame({"Heading"},
                  AttrNode("Heading", Top(stack).attrs, Top(stack).content),
                  IF stack # <<>> THEN Top(stack).attrs.kind ELSE "Heading")

EndHeading ==
    /\ Running
    /\ \E level \in HeadingLevels : Take(End([name |-> "Heading", level |-> level]))
    /\ CloseFrame({"Heading"},
                  AttrNode("Heading", Top(stack).attrs, Top(stack).content),
                  "Heading")

EndBlockQuote ==
    /\ Running
    /\ Take(End([name |-> "BlockQuote"]))
    /\ CloseFrame({"Blockquote"},
                  Block("Blockquote", Top(stack).content),
                  "BlockQuote")

EndCodeBlock ==
    /\ Running
    /\ Take(End([name |-> "CodeBlock"]))
    /\ CloseFrame({"CodeBlock"},
                  AttrNode("CodeBlock", Top(stack).attrs, trim_last_text(Top(stack).content)),
                  "CodeBlock")

EndList ==
    /\ Running
    /\ \E ordered \in BOOLEAN : Take(End([name |-> "List", ordered |-> ordered]))
    /\ CloseFrame({"BulletList", "OrderedList"},
                  AttrNode(Top(stack).attrs.kind, Top(stack).attrs, Top(stack).content),
                  "List")

\* TagEnd::Item has no else branch: a popped frame that is no ListItem is
\* dropped with its children and the loop goes on
EndItem ==
    /\ Running
    /\ Take(End([name |-> "Item"]))
    /\ IF stack = <<>> THEN Return(Err(StackEmpty))
       ELSE IF Top(stack).attrs.kind = "ListItem"
            THEN AddContent(Rest(stack), Block("ListItem", Top(stack).content))
            ELSE Continue(Rest(stack), mark_set)

EndFootnoteDefinition ==
    /\ Running
    /\ Take(End([name |-> "FootnoteDefinition"]))
    /\ CloseFrame({"FootnoteDefinition"},
                  AttrNode("FootnoteDefinition", Top(stack).attrs, trim_last_text(Top(stack).content)),
                  "FootnoteDefinition")

EndTable ==
    /\ Running
    /\ Take(End([name |-> "Table"]))
    /\ CloseFrame({"Table"},
                  AttrNode("Table", Top(stack).attrs, Top(stack).content),
                  "Table")

EndTableHead ==
    /\ Running
    /\ Take(End([name |-> "TableHead"]))
    /\ CloseFrame({"TableHead"},
                  Block("TableHead", Top(stack).content),
                  "TableHead")

EndTableRow ==
    /\ Running
    /\ Take(End([name |-> "TableRow"]))
    /\ CloseFrame({"TableRow"},
                  Block("TableRow", Top(stack).content),
                  "TableRow")

EndTableCell ==
    /\ Running
    /\ Take(End([name |-> "TableCell"]))
    /\ CloseFrame({"TableCell"},
                  Block("TableCell", Top(stack).content),
                  "TableCell")

\* a plausible slip: the metadata block keeps the newline of its last Text
EndMetadataBlockKeepingNewline ==
    /\ Running
    /\ \E kind \in MetadataBlockKinds : Take(End([name |-> "MetadataBlock", kind |-> kind]))
    /\ CloseFrame({"Metadata"},
                  Block("Metadata", Top(stack).content),
                  "Metadata")

EndMetadataBlock ==
    /\ Running
    /\ \E kind \in MetadataBlockKinds : Take(End([name |-> "MetadataBlock", kind |-> kind]))
    /\ CloseFrame({"Metadata"},
                  Block("Metadata", trim_last_text(Top(stack).content)),
                  "Metadata")

\* the alt text is the text of the frame's children; the node is a leaf
EndImage ==
    /\ Running
    /\ Take(End([name |-> "Image"]))
    /\ CloseFrame({"Image"},
                  Leaf("Image", [Top(stack).attrs EXCEPT !.alt = concat_text_content(Top(stack).content)]),
                  "Image")

EndHtmlBlock ==
    /\ Running
    /\ Take(End([name |-> "HtmlBlock"]))
    /\ Continue(stack, mark_set)

\* Event::End of an inline mark: the mark leaves the ambient set
EndMark(tag, new_mark_set) ==
    /\ Running
    /\ Take(End(tag))
    /\ Continue(stack, new_mark_set)

EndEmphasis == EndMark([name |-> "Emphasis"], MarkSetRemove(mark_set, MarkEm))
EndStrong == EndMark([name |-> "Strong"], MarkSetRemove(mark_set, MarkStrong))
EndStrikethrough ==
    EndMark([name |-> "Strikethrough"], MarkSetRemove(mark_set, MarkStrikethrough))
\* a plausible slip: only the Link mark with one href and title is removed
EndLinkRemovingOne ==
    EndMark([name |-> "Link"], MarkSetRemove(mark_set, MarkLink(<<"u">>, <<>>)))

EndLink ==
    EndMark([name |-> "Link"], MarkSetRemoveMatching(mark_set, "Link"))

\* leaf events
\* TextMergeStream hands the loop a run of adjacent Text events as one event
EventText ==
    /\ Running
    /\ event.ev # "Text"
    /\ \E text \in TextPayloads :
         /\ Take(TextEvent("Text", text))
         /\ AddContent(stack, TextNode(text, mark_set))

\* a plausible slip: the Code mark is left open in the ambient set
EventCodeLeavingMarkOpen ==
    /\ Running
    /\ \E text \in TextPayloads :
         /\ Take(TextEvent("Code", text))
         /\ IF stack = <<>> THEN Return(Err(StackEmpty))
            ELSE Continue(add_content(stack, TextNode(text, MarkSetAdd(mark_set, MarkCode))),
                          MarkSetAdd(mark_set, MarkCode))

EventCode ==
    /\ Running
    /\ \E text \in TextPayloads :
         /\ Take(TextEvent("Code", text))
         /\ AddContent(stack, TextNode(text, MarkSetAdd(mark_set, MarkCode)))

EventInlineHtml ==
    /\ Running
    /\ \E html \in TextPayloads :
         /\ Take(TextEvent("InlineHtml", html))
         /\ AddContent(stack, TextNode(html, MarkSetAdd(mark_set, MarkHtmlTag)))

EventHtml ==
    /\ Running
    /\ \E html \in TextPayloads :
         /\ Take(TextEvent("Html", html))
         /\ AddContent(stack, TextNode(html, MarkSetAdd(mark_set, MarkHtmlTag)))

EventFootnoteReference ==
    /\ Running
    /\ \E label \in Labels :
         /\ Take(TextEvent("FootnoteReference", label))
         /\ AddContent(stack, TextNode(label, MarkSetAdd(mark_set, MarkFootnote(label))))

EventSoftBreak ==
    /\ Running
    /\ Take(LeafEvent("SoftBreak"))
    /\ AddContent(stack, TextNode(<<Newline>>, mark_set))

EventHardBreak ==
    /\ Running
    /\ Take(LeafEvent("HardBreak"))
    /\ AddContent(stack, Leaf("HardBreak", NoAttrs))

EventRule ==
    /\ Running
    /\ Take(LeafEvent("Rule"))
    /\ AddContent(stack, Leaf("HorizontalRule", NoAttrs))

EventTaskListMarker ==
    /\ Running
    /\ \E checked \in BOOLEAN :
         /\ Take(TaskListMarkerEvent(checked))
         /\ AddContent(stack, Leaf("TaskListMarker",
                                   [kind |-> "TaskListMarker", checked |-> checked]))

\* the iterator is exhausted: the last frame must be the Doc frame
EndOfStream ==
    /\ returned = Unset
    /\ event' = EndOfStreamEvent
    /\ nevents' = nevents
    /\ UNCHANGED <<content_vars, compat_vars, serializer_vars, printer_vars, builder_vars>>
    /\ IF stack = <<>> THEN Return(Err(StackEmpty))
       ELSE IF Top(stack).attrs.kind = "Doc"
            THEN Return(Ok(Block("Doc", Top(stack).content)))
            ELSE Return(Err(MisplacedEndTag("Doc", Top(stack).attrs)))

(***************************************************************************)
(* from_markdown.rs: one whole run of deserialize as a function of the     *)
(* events of the tokenizer                                                 *)
(***************************************************************************)
\* TextMergeStream (pulldown_cmark): a run of adjacent Text events reaches
\* the loop as one Text event that holds their texts in order
RECURSIVE TextMergeStream(_)
TextMergeStream(events) ==
    IF Len(events) < 2 THEN events
    ELSE IF events[1].ev = "Text" /\ events[2].ev = "Text"
         THEN TextMergeStream(<<TextEvent("Text", events[1].text \o events[2].text)>>
                                  \o SubSeq(events, 3, Len(events)))
         ELSE <<events[1]>> \o TextMergeStream(Tail(events))

\* the deserializer between two events of the loop, and after a return
Deserializer(stk, set) == [stack |-> stk, mark_set |-> set, returned |-> Unset]
Returning(value) == [stack |-> <<>>, mark_set |-> <<>>, returned |-> Returned(value)]

\* self.add_content(node)? on the frames stk
AddContentTo(de, stk, node) ==
    IF stk = <<>> THEN Returning(Err(StackEmpty))
    ELSE Deserializer(add_content(stk, node), de.mark_set)

\* the Attrs of the frame that a start tag pushes
FrameAttrs(tag) ==
    CASE tag.name = "Paragraph" -> AttrsParagraph
      [] tag.name = "Heading" -> AttrsHeading(tag.level)
      [] tag.name = "BlockQuote" -> AttrsBlockquote
      [] tag.name = "CodeBlock" -> AttrsCodeBlock(tag.params)
      [] tag.name = "List" ->
            IF tag.ord = <<>> THEN AttrsBulletList ELSE AttrsOrderedList(tag.ord[1])
      [] tag.name = "Item" -> AttrsListItem
      [] tag.name = "FootnoteDefinition" -> AttrsFootnoteDefinition(tag.label)
      [] tag.name = "Table" -> AttrsTable(tag.alignment)
      [] tag.name = "TableHead" -> AttrsTableHead
      [] tag.name = "TableRow" -> AttrsTableRow
      [] tag.name = "TableCell" -> AttrsTableCell
      [] tag.name = "MetadataBlock" -> AttrsMetadata
      [] tag.name = "Image" -> AttrsImage(tag.dest_url, <<>>, tag.title)

\* the mark that an inline start tag adds to the ambient set
TagMark(tag) ==
    CASE tag.name = "Emphasis" -> MarkEm
      [] tag.name = "Strong" -> MarkStrong
      [] tag.name = "Strikethrough" -> MarkStrikethrough
      [] tag.name = "Link" -> MarkLink(tag.dest_url, tag.title)

\* the arms of Event::Start
DeserializeStart(de, tag, usize_bits) ==
    IF tag.name \in {"Emphasis", "Strong", "Strikethrough", "Link"}
    THEN Deserializer(de.stack, MarkSetAdd(de.mark_set, TagMark(tag)))
    ELSE IF tag.name = "HtmlBlock" THEN de
    ELSE IF tag.name = "List" /\ tag.ord # <<>> /\ ~FitsUsize(tag.ord[1], usize_bits)
         THEN Returning(Err(LevelMismatch))
         ELSE Deserializer(push_stack(de.stack, FrameAttrs(tag)), de.mark_set)

\* the Attrs variants that the arm of an end tag accepts on the popped frame
\* and the name its MisplacedEndTag error carries
EndKinds(tag) ==
    CASE tag.name = "BlockQuote" -> {"Blockquote"}
      [] tag.name = "List" -> {"BulletList", "OrderedList"}
      [] tag.name = "Item" -> {"ListItem"}
      [] tag.name = "MetadataBlock" -> {"Metadata"}
      [] OTHER -> {tag.name}
EndExpected(tag) == IF tag.name = "MetadataBlock" THEN "Metadata" ELSE tag.name

\* the node that the arm of an end tag builds from the popped frame
EndNode(tag, frame) ==
    CASE tag.name \in {"Paragraph", "TableHead", "TableRow", "TableCell"} ->
            Block(tag.name, frame.content)
      [] tag.name = "BlockQuote" -> Block("Blockquote", frame.content)
      [] tag.name = "Item" -> Block("ListItem", frame.content)
      [] tag.name = "MetadataBlock" -> Block("Metadata", trim_last_text(frame.content))
      [] tag.name \in {"Heading", "Table"} -> AttrNode(tag.name, frame.attrs, frame.content)
      [] tag.name = "List" -> AttrNode(frame.attrs.kind, frame.attrs, frame.content)
      [] tag.name \in {"CodeBlock", "FootnoteDefinition"} ->
            AttrNode(tag.name, frame.attrs, trim_last_text(frame.content))
      [] tag.name = "Image" ->
            Leaf("Image", [frame.attrs EXCEPT !.alt = concat_text_content(frame.content)])

\* the arms of Event::End
DeserializeEnd(de, tag) ==
    CASE tag.name = "Emphasis" -> Deserializer(de.stack, MarkSetRemove(de.mark_set, MarkEm))
      [] tag.name = "Strong" -> Deserializer(de.stack, MarkSetRemove(de.mark_set, MarkStrong))
      [] tag.name = "Strikethrough" ->
            Deserializer(de.stack, MarkSetRemove(de.mark_set, MarkStrikethrough))
      [] tag.name = "Link" ->
            Deserializer(de.stack, MarkSetRemoveMatching(de.mark_set, "Link"))
      [] tag.name = "HtmlBlock" -> de
      [] OTHER ->
            IF de.stack = <<>> THEN Returning(Err(StackEmpty))
            ELSE IF Top(de.stack).attrs.kind \in EndKinds(tag)
                 THEN AddContentTo(de, Rest(de.stack), EndNode(tag, Top(de.stack)))
                 ELSE IF tag.name = "Item" THEN Deserializer(Rest(de.stack), de.mark_set)
                 ELSE Returning(Err(MisplacedEndTag(EndExpected(tag), Top(de.stack).attrs)))

\* the node that a leaf event adds to the top frame
EventNode(e, set) ==
    CASE e.ev = "Text" -> TextNode(e.text, set)
      [] e.ev = "Code" -> TextNode(e.text, MarkSetAdd(set, MarkCode))
      [] e.ev \in {"InlineHtml", "Html"} -> TextNode(e.text, MarkSetAdd(set, MarkHtmlTag))
      [] e.ev = "FootnoteReference" ->
            TextNode(e.text, MarkSetAdd(set, MarkFootnote(e.text)))
      [] e.ev = "SoftBreak" -> TextNode(<<Newline>>, set)
      [] e.ev = "HardBreak" -> Leaf("HardBreak", NoAttrs)
      [] e.ev = "Rule" -> Leaf("HorizontalRule", NoAttrs)
      [] e.ev = "TaskListMarker" ->
            Leaf("TaskListMarker", [kind |-> "TaskListMarker", checked |-> e.checked])

\* the body of the for loop on one event
DeserializeEvent(de, e, usize_bits) ==
    CASE e.ev = "Start" -> DeserializeStart(de, e.tag, usize_bits)
      [] e.ev = "End" -> DeserializeEnd(de, e.tag)
      [] OTHER -> AddContentTo(de, de.stack, EventNode(e, de.mark_set))

\* the for loop from event i on: a return ends it
RECURSIVE DeserializeLoop(_, _, _, _)
DeserializeLoop(de, events, i, usize_bits) ==
    IF de.returned # Unset \/ i > Len(events) THEN de
    ELSE DeserializeLoop(DeserializeEvent(de, events[i], usize_bits), events, i + 1,
                         usize_bits)

\* after the loop: the last frame must be the Doc frame
DeserializeFinish(de) ==
    IF de.returned # Unset THEN de.returned[1]
    ELSE IF de.stack = <<>> THEN Err(StackEmpty)
    ELSE IF Top(de.stack).attrs.kind = "Doc"
         THEN Ok(Block("Doc", Top(de.stack).content))
         ELSE Err(MisplacedEndTag("Doc", Top(de.stack).attrs))

\* a plausible slip: the loop runs on the events as the tokenizer emits them
deserialize_unmerged(parser, usize_bits) ==
    DeserializeFinish(DeserializeLoop(Deserializer(push_stack(<<>>, AttrsDoc), <<>>),
                                      parser, 1, usize_bits))

\* MarkdownDeserializer::deserialize
deserialize(parser, usize_bits) ==
    DeserializeFinish(DeserializeLoop(Deserializer(push_stack(<<>>, AttrsDoc), <<>>),
                                      TextMergeStream(parser), 1, usize_bits))

\* inputs: the event streams handed to deserialize, well-formed or not
MaxTokens == 4
TokenAlphabet ==
    {TextEvent("Text", <<"a">>), TextEvent("Text", <<Newline>>),
     TextEvent("Code", <<"a">>), LeafEvent("SoftBreak"),
     Start([name |-> "Paragraph"]), End([name |-> "Paragraph"]),
     Start([name |-> "CodeBlock", kind |-> "Fenced", params |-> <<"r">>]),
     End([name |-> "CodeBlock"]),
     Start([name |-> "Strong"]), End([name |-> "Strong"]),
     Start([name |-> "List", ord |-> <<<<4, 2, 9, 4, 9, 6, 7, 2, 9, 6>>>>])}
TokenStreams == UNION {[1..n -> TokenAlphabet] : n \in 0..MaxTokens}

BuilderInit ==
    /\ tokens \in TokenStreams
    /\ built = Unset

BuilderIdle ==
    /\ tokens = <<>>
    /\ built = Unset

\* d.deserialize(parser) on the events of the tokenizer
CallDeserialize ==
    /\ built = Unset
    /\ \E usize_bits \in UsizeBits :
         built' = Returned(deserialize(tokens, usize_bits))
    /\ UNCHANGED <<tokens, content_vars, compat_vars, parser_vars, serializer_vars,
                   printer_vars>>

\* d.deserialize(parser) on the events that the serializer has produced for
\* a tree
Reparse ==
    /\ exhausted
    /\ built = Unset
    /\ tokens' = emitted
    /\ \E usize_bits \in UsizeBits :
         built' = Returned(deserialize(emitted, usize_bits))
    /\ UNCHANGED <<content_vars, compat_vars, parser_vars, serializer_vars, printer_vars>>

BuilderNext == CallDeserialize

(***************************************************************************)
(* to_markdown.rs: the serializer, an iterator of events over a tree       *)
(***************************************************************************)
\* Option<Event>: the item returned by one call of next()
Some(value) == <<value>>
NoItem == <<>>

\* MarkdownSerializer::new
new(tree) ==
    [inner |-> <<[node |-> tree, index |-> 0]>>, marks |-> <<>>, stack |-> <<>>]

\* a plausible slip: the tag of Em is copied from the line of Strong
mark_tag_em_as_strong(mark) ==
    CASE mark.type = "Strong" -> [name |-> "Strong"]
      [] mark.type = "Em" -> [name |-> "Strong"]
      [] mark.type = "Strikethrough" -> [name |-> "Strikethrough"]
      [] mark.type = "Link" ->
            [name |-> "Link", dest_url |-> mark.href, title |-> mark.title]
      [] OTHER -> [name |-> "unimplemented"]

\* the tag of a mark that is open on the mark stack; unimplemented!() for the
\* marks that are never pushed on it
mark_tag(mark) ==
    CASE mark.type = "Strong" -> [name |-> "Strong"]
      [] mark.type = "Em" -> [name |-> "Emphasis"]
      [] mark.type = "Strikethrough" -> [name |-> "Strikethrough"]
      [] mark.type = "Link" ->
            [name |-> "Link", dest_url |-> mark.href, title |-> mark.title]
      [] OTHER -> [name |-> "unimplemented"]

\* Tag::to_end as the serializer uses it: the end tag keeps the heading level
\* and whether the list is ordered, and drops every other payload
to_end(tag) ==
    CASE tag.name = "Heading" -> [name |-> "Heading", level |-> tag.level]
      [] tag.name = "List" -> [name |-> "List", ordered |-> tag.ord # <<>>]
      [] tag.name = "MetadataBlock" -> [name |-> "MetadataBlock", kind |-> tag.kind]
      [] OTHER -> [name |-> tag.name]

\* a plausible slip: the Code mark is written as a tag like the marks before it
mark_to_start_event_code_as_tag(mark, text) ==
    CASE mark.type = "Strong" -> Start([name |-> "Strong"])
      [] mark.type = "Em" -> Start([name |-> "Emphasis"])
      [] mark.type = "Strikethrough" -> Start([name |-> "Strikethrough"])
      [] mark.type = "Link" ->
            Start([name |-> "Link", dest_url |-> mark.href, title |-> mark.title])
      [] mark.type = "Code" -> Start([name |-> "Code"])
      [] mark.type = "Footnote" -> TextEvent("FootnoteReference", text)
      [] mark.type = "HtmlTag" -> TextEvent("Html", text)

mark_to_start_event(mark, text) ==
    CASE mark.type = "Strong" -> Start([name |-> "Strong"])
      [] mark.type = "Em" -> Start([name |-> "Emphasis"])
      [] mark.type = "Strikethrough" -> Start([name |-> "Strikethrough"])
      [] mark.type = "Link" ->
            Start([name |-> "Link", dest_url |-> mark.href, title |-> mark.title])
      [] mark.type = "Code" -> TextEvent("Code", text)
      [] mark.type = "Footnote" -> TextEvent("FootnoteReference", text)
      [] mark.type = "HtmlTag" -> TextEvent("Html", text)

\* the heading level of the tag: 0 and 1 are H1, 6 and more are H6
HeadingLevel(level) == IF level <= 1 THEN 1 ELSE IF level >= 6 THEN 6 ELSE level

\* the closures handed to process_attr_node by the arms of next(): the tag of
\* a node
map(node) ==
    CASE node.type = "Heading" ->
            [name |-> "Heading", level |-> HeadingLevel(node.attrs.level)]
      [] node.type = "CodeBlock" ->
            [name |-> "CodeBlock", kind |-> "Fenced", params |-> node.attrs.params]
      [] node.type = "Blockquote" -> [name |-> "BlockQuote"]
      [] node.type = "Paragraph" -> [name |-> "Paragraph"]
      [] node.type = "BulletList" -> [name |-> "List", ord |-> <<>>]
      [] node.type = "OrderedList" -> [name |-> "List", ord |-> <<node.attrs.order>>]
      [] node.type = "ListItem" -> [name |-> "Item"]
      [] node.type = "Metadata" -> [name |-> "MetadataBlock", kind |-> "YamlStyle"]
      [] node.type = "Image" ->
            [name |-> "Image", dest_url |-> node.attrs.src, title |-> node.attrs.title]
      [] node.type = "FootnoteDefinition" ->
            [name |-> "FootnoteDefinition", label |-> node.attrs.label]
      [] node.type = "Table" -> [name |-> "Table", alignment |-> node.attrs.alignment]
      [] node.type = "TableHead" -> [name |-> "TableHead"]
      [] node.type = "TableRow" -> [name |-> "TableRow"]
      [] node.type = "TableCell" -> [name |-> "TableCell"]

\* self.inner.push((node, index))
PushInner(self, node, index) ==
    [self EXCEPT !.inner = Append(@, [node |-> node, index |-> index])]

\* a plausible slip: the revisit is scheduled one child too far
process_content_skipping(self, index, content, node) ==
    IF index < Len(content)
    THEN [self |-> PushInner(PushInner(self, node, index + 2), content[index + 1], 0),
          last |-> FALSE]
    ELSE [self |-> self, last |-> TRUE]

\* process_content: the child at index, if any, is scheduled after the node's
\* own next visit; the result tells whether index is past the last child
process_content(self, index, content, node) ==
    IF index < Len(content)
    THEN [self |-> PushInner(PushInner(self, node, index + 1), content[index + 1], 0),
          last |-> FALSE]
    ELSE [self |-> self, last |-> TRUE]

\* the first mark of a Text node, in the order of its mark set, whose start
\* event is a tag that is not open yet; 0 when there is none
RECURSIVE FirstUnopened(_, _, _)
FirstUnopened(node_marks, open, i) ==
    IF i > Len(node_marks) THEN 0
    ELSE IF /\ mark_to_start_event(node_marks[i], <<>>).ev = "Start"
            /\ ~MarkSetContains(open, node_marks[i])
         THEN i
         ELSE FirstUnopened(node_marks, open, i + 1)

\* custom_event after the whole loop: the event of the last mark that is not
\* a tag
RECURSIVE CustomEvent(_, _, _)
CustomEvent(node_marks, text, i) ==
    IF i = 0 THEN NoItem
    ELSE IF mark_to_start_event(node_marks[i], text).ev # "Start"
         THEN Some(mark_to_start_event(node_marks[i], text))
         ELSE CustomEvent(node_marks, text, i - 1)

\* a plausible slip: the Text node is not scheduled again when a mark that it
\* does not carry is closed first
NextTextDroppingNode(self, node, index) ==
    IF self.marks # <<>> /\ ~MarkSetContains(node.marks, Top(self.marks))
    THEN [self |-> [self EXCEPT !.marks = Rest(@)],
          item |-> Some(End(to_end(mark_tag(Top(self.marks)))))]
    ELSE LET first == FirstUnopened(node.marks, self.marks, 1)
             custom_event == CustomEvent(node.marks, node.text, Len(node.marks))
         IN  IF first # 0
             THEN [self |-> [PushInner(self, node, index)
                                EXCEPT !.marks = Append(@, node.marks[first])],
                   item |-> Some(mark_to_start_event(node.marks[first], node.text))]
             ELSE IF custom_event # NoItem
                  THEN [self |-> self, item |-> custom_event]
                  ELSE [self |-> self, item |-> Some(TextEvent("Text", node.text))]

\* the MarkdownNode::Text arm of next()
NextText(self, node, index) ==
    IF self.marks # <<>> /\ ~MarkSetContains(node.marks, Top(self.marks))
    THEN [self |-> [PushInner(self, node, index) EXCEPT !.marks = Rest(@)],
          item |-> Some(End(to_end(mark_tag(Top(self.marks)))))]
    ELSE LET first == FirstUnopened(node.marks, self.marks, 1)
             custom_event == CustomEvent(node.marks, node.text, Len(node.marks))
         IN  IF first # 0
             THEN [self |-> [PushInner(self, node, index)
                                EXCEPT !.marks = Append(@, node.marks[first])],
                   item |-> Some(mark_to_start_event(node.marks[first], node.text))]
             ELSE IF custom_event # NoItem
                  THEN [self |-> self, item |-> custom_event]
                  ELSE [self |-> self, item |-> Some(TextEvent("Text", node.text))]

RECURSIVE next(_)
RECURSIVE process_attr_node(_, _, _, _)
\* a plausible slip: the End of the node is emitted without closing the marks
\* that its last child left open
process_attr_node_leaving_marks(self, index, content, node) ==
    IF index = 0 /\ self.marks # <<>>
    THEN [self |-> [PushInner(self, node, 0) EXCEPT !.marks = Rest(@)],
          item |-> Some(End(to_end(mark_tag(Top(self.marks)))))]
    ELSE LET processed == process_content(self, index, content, node)
         IN  IF index = 0
             THEN [self |-> IF processed.last
                            THEN PushInner(processed.self, node, index + 1)
                            ELSE processed.self,
                   item |-> Some(Start(map(node)))]
             ELSE IF processed.last
                  THEN IF map(node).name = "CodeBlock"
                       THEN [self |-> [self EXCEPT
                                          !.stack = Append(@, End(to_end(map(node))))],
                             item |-> Some(TextEvent("Text", <<Newline>>))]
                       ELSE [self |-> self, item |-> Some(End(to_end(map(node))))]
                  ELSE next(processed.self)

process_attr_node(self, index, content, node) ==
    IF index = 0 /\ self.marks # <<>>
    THEN [self |-> [PushInner(self, node, 0) EXCEPT !.marks = Rest(@)],
          item |-> Some(End(to_end(mark_tag(Top(self.marks)))))]
    ELSE LET processed == process_content(self, index, content, node)
         IN  IF index = 0
             THEN [self |-> IF processed.last
                            THEN PushInner(processed.self, node, index + 1)
                            ELSE processed.self,
                   item |-> Some(Start(map(node)))]
             ELSE IF processed.last
                  THEN IF self.marks # <<>>
                       THEN [self |-> [PushInner(self, node, index) EXCEPT !.marks = Rest(@)],
                             item |-> Some(End(to_end(mark_tag(Top(self.marks)))))]
                       ELSE IF map(node).name = "CodeBlock"
                            THEN [self |-> [self EXCEPT
                                               !.stack = Append(@, End(to_end(map(node))))],
                                  item |-> Some(TextEvent("Text", <<Newline>>))]
                            ELSE [self |-> self, item |-> Some(End(to_end(map(node))))]
                  ELSE next(processed.self)

\* Iterator::next: a queued event first, then the top of the traversal stack
next(self) ==
    IF self.stack # <<>>
    THEN [self |-> [self EXCEPT !.stack = Rest(@)], item |-> Some(Top(self.stack))]
    ELSE IF self.inner # <<>>
         THEN LET node == Top(self.inner).node
                  index == Top(self.inner).index
                  popped == [self EXCEPT !.inner = Rest(@)]
              IN  CASE node.type = "Doc" ->
                         next(process_content(popped, index, node.content, node).self)
                    [] node.type = "Text" -> NextText(popped, node, index)
                    [] node.type = "HorizontalRule" ->
                         [self |-> popped, item |-> Some(LeafEvent("Rule"))]
                    [] node.type = "HardBreak" ->
                         [self |-> popped, item |-> Some(LeafEvent("HardBreak"))]
                    [] node.type = "TaskListMarker" ->
                         [self |-> popped,
                          item |-> Some(TaskListMarkerEvent(node.attrs.checked))]
                    [] OTHER -> process_attr_node(popped, index, node.content, node)
         ELSE [self |-> self, item |-> NoItem]

\* inputs: the trees handed to to_markdown
MaxInline == 2
SerializerMarkSets ==
    {<<>>, <<MarkStrong>>, <<MarkEm>>, <<MarkStrong, MarkEm>>, <<MarkEm, MarkStrong>>,
     <<MarkCode>>, <<MarkStrong, MarkCode>>, <<MarkLink(<<"u">>, <<>>)>>,
     <<MarkHtmlTag>>, <<MarkFootnote(<<"f">>)>>, <<MarkCode, MarkHtmlTag>>}
SerializerInlines ==
    {TextNode(<<"a">>, node_marks) : node_marks \in SerializerMarkSets}
        \cup {Leaf("HardBreak", NoAttrs),
              AttrNode("Image", AttrsImage(<<"u">>, <<>>, <<>>), <<>>)}
SerializerFragments == UNION {[1..n -> SerializerInlines] : n \in 0..MaxInline}
SerializerTrees ==
    UNION {{Block("Doc", children),
            Block("Doc", <<Block("Paragraph", children)>>),
            Block("Doc", <<AttrNode("CodeBlock", AttrsCodeBlock(<<"r">>), children)>>),
            Block("Doc", <<AttrNode("BulletList", AttrsBulletList,
                                    <<Block("ListItem", <<Block("Paragraph", children)>>)>>),
                           Leaf("HorizontalRule", NoAttrs)>>)}
           : children \in SerializerFragments}

SerializerInit ==
    /\ doc \in SerializerTrees
    /\ serializer = new(doc)
    /\ emitted = <<>>
    /\ exhausted = FALSE

SerializerIdle ==
    /\ doc = None
    /\ serializer = None
    /\ emitted = <<>>
    /\ exhausted = FALSE

\* the for loop of Printer::print asks for the next event and gets one
NextSome ==
    /\ ~exhausted
    /\ next(serializer).item # NoItem
    /\ serializer' = next(serializer).self
    /\ emitted' = Append(emitted, next(serializer).item[1])
    /\ UNCHANGED <<doc, exhausted, content_vars, compat_vars, parser_vars, printer_vars,
                   builder_vars>>

\* the for loop asks for the next event and the iterator is exhausted
NextNone ==
    /\ ~exhausted
    /\ next(serializer).item = NoItem
    /\ serializer' = next(serializer).self
    /\ exhausted' = TRUE
    /\ UNCHANGED <<doc, emitted, content_vars, compat_vars, parser_vars, printer_vars,
                   builder_vars>>

SerializerNext == NextSome \/ NextNone

(***************************************************************************)
(* print_markdown.rs: the printer, events back to markdown text            *)
(***************************************************************************)
Max(a, b) == IF a >= b THEN a ELSE b

\* str::repeat
RECURSIVE repeat(_, _)
repeat(s, n) == IF n <= 0 THEN <<>> ELSE s \o repeat(s, n - 1)

\* u64 + 1 on decimal digits
RECURSIVE NumberIncrement(_)
NumberIncrement(number) ==
    IF number = <<>> THEN <<1>>
    ELSE IF number[Len(number)] < 9
         THEN [number EXCEPT ![Len(number)] = @ + 1]
         ELSE Append(NumberIncrement(SubSeq(number, 1, Len(number) - 1)), 0)

\* Display for u64
DigitChars == <<"0", "1", "2", "3", "4", "5", "6", "7", "8", "9">>
to_string(number) == [i \in 1..Len(number) |-> DigitChars[number[i] + 1]]

\* char::is_whitespace on the characters of the model, for str::trim
Whitespace == {" ", Newline}
trim_is_empty(s) == \A i \in 1..Len(s) : s[i] \in Whitespace

ends_with(s, c) == s # <<>> /\ s[Len(s)] = c

\* Range<usize>: start..end, half-open, counted from 0
Range(start, end) == [start |-> start, end |-> end]
StackItem(tag, range, list_counter) ==
    [tag |-> tag, range |-> range, list_counter |-> list_counter]

\* Option<TableCtx> is None, and TableCtx::default()
NoTable == <<>>
TableCtx == [buffer |-> <<>>, header |-> <<>>, rows |-> <<>>]

\* the Printer that Printer::print builds; panicked tells that a panic has
\* unwound out of print
Printer ==
    [buffer |-> <<>>, tag_stack |-> <<>>, separate_by_newline |-> "None",
     codeblock_backticks |-> 0, table_context |-> NoTable, panicked |-> FALSE]

Panic(p) == [p EXCEPT !.panicked = TRUE]

\* the buffer in use: the table's while a table is open, the caller's otherwise
buffer(p) == IF p.table_context # NoTable THEN p.table_context[1].buffer ELSE p.buffer
buffer_mut(p, new_buffer) ==
    IF p.table_context # NoTable
    THEN [p EXCEPT !.table_context[1].buffer = new_buffer]
    ELSE [p EXCEPT !.buffer = new_buffer]

print_str(p, s) == buffer_mut(p, buffer(p) \o s)
print_string(p, s) == buffer_mut(p, buffer(p) \o s)
buffer_len(p) == Len(buffer(p))

\* String::insert_str panics when pos is past the end
insert_str(p, pos, s) ==
    IF pos > buffer_len(p) THEN Panic(p)
    ELSE buffer_mut(p, SubSeq(buffer(p), 1, pos) \o s
                          \o SubSeq(buffer(p), pos + 1, buffer_len(p)))

\* a plausible slip: the separation is written and stays pending
print_newline_keeping_state(p) ==
    print_str(p, CASE p.separate_by_newline = "None" -> <<>>
                   [] p.separate_by_newline = "Once" -> <<Newline>>
                   [] p.separate_by_newline = "Block" -> <<Newline, Newline>>)

print_newline(p) ==
    [print_str(p, CASE p.separate_by_newline = "None" -> <<>>
                    [] p.separate_by_newline = "Once" -> <<Newline>>
                    [] p.separate_by_newline = "Block" -> <<Newline, Newline>>)
        EXCEPT !.separate_by_newline = "None"]

print_block(p, s) == print_str(print_newline(p), s)

tag_is_block(p) == [p EXCEPT !.separate_by_newline = "Block"]

\* a plausible slip: all() for any(), which holds of the empty tag stack
in_tag_all(p, pattern) ==
    \A i \in 1..Len(p.tag_stack) :
        LET tag == p.tag_stack[i].tag
        IN  \A field \in DOMAIN pattern :
                field \in DOMAIN tag /\ tag[field] = pattern[field]

\* (pattern: the fields of the Tag pattern the closure matches)
in_tag(p, pattern) ==
    \E i \in 1..Len(p.tag_stack) :
        LET tag == p.tag_stack[i].tag
        IN  \A field \in DOMAIN pattern :
                field \in DOMAIN tag /\ tag[field] = pattern[field]

\* the fold that counts the longest run of backticks in the first n characters
RECURSIVE BacktickFold(_, _)
BacktickFold(text, n) ==
    IF n = 0 THEN [acc |-> 0, max_acc |-> 0]
    ELSE LET before == BacktickFold(text, n - 1)
         IN  IF text[n] = Backtick
             THEN [acc |-> before.acc + 1, max_acc |-> Max(before.acc + 1, before.max_acc)]
             ELSE [acc |-> 0, max_acc |-> before.max_acc]

IsFencedCodeBlock(tag) == tag.name = "CodeBlock" /\ tag.kind = "Fenced"

\* a plausible slip: only the innermost open tag is asked for a BlockQuote
PrintTextEventQuotingInnermost(p, text) ==
    LET written == print_str(p, text)
        quoted == IF /\ ends_with(text, Newline)
                     /\ p.tag_stack # <<>>
                     /\ Top(p.tag_stack).tag.name = "BlockQuote"
                  THEN print_str(written, <<">", " ">>)
                  ELSE written
    IN  IF in_tag(p, [name |-> "CodeBlock", kind |-> "Fenced"])
        THEN [quoted EXCEPT !.codeblock_backticks =
                                Max(@, BacktickFold(text, Len(text)).max_acc)]
        ELSE quoted

\* Event::Text
PrintTextEvent(p, text) ==
    LET written == print_str(p, text)
        quoted == IF ends_with(text, Newline) /\ in_tag(p, [name |-> "BlockQuote"])
                  THEN print_str(written, <<">", " ">>)
                  ELSE written
    IN  IF in_tag(p, [name |-> "CodeBlock", kind |-> "Fenced"])
        THEN [quoted EXCEPT !.codeblock_backticks =
                                Max(@, BacktickFold(text, Len(text)).max_acc)]
        ELSE quoted

\* a plausible slip: inline code is always wrapped in one backtick
PrintCodeEventInOneBacktick(p, code) ==
    print_string(p, <<Backtick>> \o code \o <<Backtick>>)

\* Event::Code
PrintCodeEvent(p, code) ==
    LET backticks == repeat(<<Backtick>>, BacktickFold(code, Len(code)).max_acc + 1)
    IN  print_string(p, backticks \o code \o backticks)

\* TableCtx::max_column
RECURSIVE MaxRowLen(_, _)
MaxRowLen(rows, n) == IF n = 0 THEN 0 ELSE Max(Len(rows[n]), MaxRowLen(rows, n - 1))
max_column(ctx) == MaxRowLen(<<ctx.header>> \o ctx.rows, Len(ctx.rows) + 1)

\* range.end - range.start underflows for some recorded cell
RangeUnderflow(ctx) ==
    LET all == <<ctx.header>> \o ctx.rows
    IN  \E r \in 1..Len(all) : \E c \in 1..Len(all[r]) : all[r][c].end < all[r][c].start

\* the longest cell of column idx over the first n of the rows
RECURSIVE ColumnLen(_, _, _)
ColumnLen(rows, idx, n) ==
    IF n = 0 THEN 0
    ELSE IF idx <= Len(rows[n])
         THEN Max(rows[n][idx].end - rows[n][idx].start, ColumnLen(rows, idx, n - 1))
         ELSE ColumnLen(rows, idx, n - 1)

\* a plausible slip: the least width of a column is forgotten
max_column_length_without_least(ctx) ==
    [idx \in 1..max_column(ctx) |->
        ColumnLen(<<ctx.header>> \o ctx.rows, idx, Len(ctx.rows) + 1)]

\* TableCtx::max_column_length
max_column_length(ctx) ==
    [idx \in 1..max_column(ctx) |->
        Max(ColumnLen(<<ctx.header>> \o ctx.rows, idx, Len(ctx.rows) + 1), 3)]

\* &buffer[range] panics when the range is not inside the buffer
SliceOk(s, range) == range.start <= range.end /\ range.end <= Len(s)
Slice(s, range) == SubSeq(s, range.start + 1, range.end)

\* the loop of print_table_row over the first n columns
RECURSIVE print_table_cells(_, _, _, _, _)
print_table_cells(p, row, max_column_len, table_buffer, n) ==
    IF n = 0 THEN p
    ELSE LET before == print_table_cells(p, row, max_column_len, table_buffer, n - 1)
             max == max_column_len[n]
         IN  IF n <= Len(row)
             THEN IF ~SliceOk(table_buffer, row[n]) THEN Panic(before)
                  ELSE LET len == row[n].end - row[n].start
                           diff == IF max > len THEN max - len ELSE 0
                       IN  print_string(
                               print_str(print_str(before, <<"|", " ">>),
                                         Slice(table_buffer, row[n])),
                               repeat(<<" ">>, diff + 1))
             ELSE print_string(print_str(before, <<"|", " ">>), repeat(<<" ">>, max + 1))

print_table_row(p, row, max_column_len, table_buffer) ==
    print_str(print_table_cells(p, row, max_column_len, table_buffer, Len(max_column_len)),
              <<"|", Newline>>)

\* the separator row under the header, over the first n columns
RECURSIVE print_separator_cells(_, _, _)
print_separator_cells(p, max_column_len, n) ==
    IF n = 0 THEN p
    ELSE print_str(print_string(print_str(print_separator_cells(p, max_column_len, n - 1),
                                          <<"|", " ">>),
                                repeat(<<"-">>, max_column_len[n])),
                   <<" ">>)

\* the body rows, the first n of them
RECURSIVE print_table_rows(_, _, _, _, _)
print_table_rows(p, rows, max_column_len, table_buffer, n) ==
    IF n = 0 THEN p
    ELSE print_table_row(print_table_rows(p, rows, max_column_len, table_buffer, n - 1),
                         rows[n], max_column_len, table_buffer)

\* the (Tag::Table, TagEnd::Table) arm; the subtraction of a range whose end is
\* before its start panics with overflow checks and, without them, asks for a
\* string longer than the address space
PrintTableEnd(p) ==
    IF p.table_context = NoTable THEN Panic(p)
    ELSE LET table_ctx == p.table_context[1]
             taken == [p EXCEPT !.table_context = NoTable]
         IN  IF RangeUnderflow(table_ctx) THEN Panic(p)
             ELSE LET max_column_len == max_column_length(table_ctx)
                      head == print_table_row(taken, table_ctx.header, max_column_len,
                                              table_ctx.buffer)
                      separator == print_str(
                                       print_separator_cells(head, max_column_len,
                                                             Len(max_column_len)),
                                       <<"|", Newline>>)
                  IN  tag_is_block(print_table_rows(separator, table_ctx.rows,
                                                    max_column_len, table_ctx.buffer,
                                                    Len(table_ctx.rows)))

\* a plausible slip: the range of every cell is recorded in the header
PrintTableCellEndIntoHeader(p, start) ==
    LET range == Range(start.range.start, buffer_len(p))
    IN  IF p.table_context = NoTable THEN Panic(p)
        ELSE [p EXCEPT !.table_context[1].header = Append(@, range)]

\* the (Tag::TableCell, TagEnd::TableCell) arm
PrintTableCellEnd(p, start) ==
    LET range == Range(start.range.start, buffer_len(p))
        in_head == in_tag(p, [name |-> "TableHead"])
    IN  IF p.table_context = NoTable THEN Panic(p)
        ELSE IF in_head
             THEN [p EXCEPT !.table_context[1].header = Append(@, range)]
             ELSE IF p.table_context[1].rows = <<>> THEN Panic(p)
                  ELSE [p EXCEPT !.table_context[1].rows[Len(p.table_context[1].rows)] =
                                     Append(@, range)]

\* a plausible slip: a blank title is written as an empty pair of quotes
PrintLinkEndQuotingBlankTitle(p, start) ==
    LET title == <<" ", "\"">> \o start.tag.title \o <<"\"">>
    IN  print_string(p, <<"]", "(">> \o start.tag.dest_url \o title \o <<")">>)

\* the closing of a link or an image
PrintLinkEnd(p, start) ==
    LET title == IF trim_is_empty(start.tag.title) THEN <<>>
                 ELSE <<" ", "\"">> \o start.tag.title \o <<"\"">>
    IN  print_string(p, <<"]", "(">> \o start.tag.dest_url \o title \o <<")">>)

\* the Tag::Item arm: the number of open lists minus one is the indentation,
\* and the counter is read from the item on top of the stack.  Without an open
\* list the subtraction panics with overflow checks and, without them, the
\* unwrap or the repeat of an indentation longer than the address space does.
PrintItemStart(p, overflow_checks) ==
    LET lists == Cardinality({i \in 1..Len(p.tag_stack) : p.tag_stack[i].tag.name = "List"})
        list == Top(p.tag_stack).list_counter
        indented == print_str(print_newline(p), repeat(<<" ">>, (lists - 1) * 2))
        marked == IF list # <<>>
                  THEN IF list[1] = U64Max /\ overflow_checks
                       THEN Panic(p)
                       ELSE [print_str(indented, to_string(list[1]) \o <<".", " ">>)
                                EXCEPT !.tag_stack[Len(p.tag_stack)].list_counter =
                                           IF list[1] = U64Max THEN <<<<0>>>>
                                           ELSE <<NumberIncrement(list[1])>>]
                  ELSE print_str(indented, <<"-", " ">>)
    IN  IF lists = 0 THEN Panic(p)
        ELSE [marked EXCEPT !.separate_by_newline = "Once"]

print_tag_start(p, start, overflow_checks) ==
    LET range_before ==
            IF IsFencedCodeBlock(start) THEN buffer_len(print_newline(p)) ELSE buffer_len(p)
        list_from == IF start.name = "List" THEN start.ord ELSE <<>>
        written ==
            CASE start.name = "Paragraph" -> print_newline(p)
              [] start.name = "Heading" ->
                    print_block(p, repeat(<<"#">>, start.level) \o <<" ">>)
              [] start.name = "BlockQuote" -> print_block(p, <<">", " ">>)
              [] start.name = "CodeBlock" ->
                    IF start.kind = "Fenced"
                    THEN print_str([print_newline(p) EXCEPT !.codeblock_backticks = 0],
                                   start.params \o <<Newline>>)
                    ELSE Panic(p)
              [] start.name = "HtmlBlock" -> Panic(p)
              [] start.name = "List" -> print_newline(p)
              [] start.name = "Item" -> PrintItemStart(p, overflow_checks)
              [] start.name = "FootnoteDefinition" ->
                    print_block(p, <<"[", "^">> \o start.label \o <<"]", ":", " ">>)
              [] start.name = "Table" ->
                    [print_newline(p) EXCEPT !.table_context = <<TableCtx>>]
              [] start.name = "TableHead" -> p
              [] start.name = "TableRow" ->
                    IF p.table_context = NoTable THEN Panic(p)
                    ELSE [p EXCEPT !.table_context[1].rows = Append(@, <<>>)]
              [] start.name = "TableCell" -> p
              [] start.name = "Emphasis" -> print_str(p, <<"_">>)
              [] start.name = "Strong" -> print_str(p, <<"*", "*">>)
              [] start.name = "Strikethrough" -> print_str(p, <<"~">>)
              [] start.name = "Link" -> print_str(p, <<"[">>)
              [] start.name = "Image" -> print_str(p, <<"!", "[">>)
              [] start.name = "MetadataBlock" ->
                    IF start.kind = "YamlStyle"
                    THEN print_str(print_newline(p), <<"-", "-", "-", Newline>>)
                    ELSE Panic(p)
    IN  IF written.panicked THEN written
        ELSE [written EXCEPT !.tag_stack =
                 Append(@, StackItem(start, Range(range_before, buffer_len(written)),
                                     list_from))]

print_tag_end(p, end) ==
    IF p.tag_stack = <<>> THEN Panic(p)
    ELSE LET start == Top(p.tag_stack)
             popped == [p EXCEPT !.tag_stack = Rest(@)]
         IN  CASE start.tag.name = "Paragraph" /\ end.name = "Paragraph" ->
                    tag_is_block(popped)
               [] start.tag.name = "Heading" /\ end.name = "Heading" ->
                    [popped EXCEPT !.separate_by_newline = "Once"]
               [] start.tag.name = "BlockQuote" /\ end.name = "BlockQuote" ->
                    tag_is_block(popped)
               [] IsFencedCodeBlock(start.tag) /\ end.name = "CodeBlock" ->
                    LET backticks == repeat(<<Backtick>>, Max(popped.codeblock_backticks, 2) + 1)
                    IN  tag_is_block(print_str(insert_str(popped, start.range.start, backticks),
                                               backticks))
               [] start.tag.name = "List" /\ end.name = "List" -> tag_is_block(popped)
               [] start.tag.name = "Item" /\ end.name = "Item" ->
                    [popped EXCEPT !.separate_by_newline = "Once"]
               [] start.tag.name = "FootnoteDefinition" /\ end.name = "FootnoteDefinition" ->
                    [popped EXCEPT !.separate_by_newline = "Once"]
               [] start.tag.name = "Table" /\ end.name = "Table" -> PrintTableEnd(popped)
               [] start.tag.name = "TableHead" /\ end.name = "TableHead" -> popped
               [] start.tag.name = "TableRow" /\ end.name = "TableRow" -> popped
               [] start.tag.name = "TableCell" /\ end.name = "TableCell" ->
                    PrintTableCellEnd(popped, start)
               [] start.tag.name = "Emphasis" /\ end.name = "Emphasis" ->
                    print_str(popped, <<"_">>)
               [] start.tag.name = "Strong" /\ end.name = "Strong" ->
                    print_str(popped, <<"*", "*">>)
               [] start.tag.name = "Strikethrough" /\ end.name = "Strikethrough" ->
                    print_str(popped, <<"~">>)
               [] start.tag.name = "Link" /\ end.name = "Link" -> PrintLinkEnd(popped, start)
               [] start.tag.name = "Image" /\ end.name = "Image" -> PrintLinkEnd(popped, start)
               [] start.tag.name = "MetadataBlock" /\ end.name = "MetadataBlock" ->
                    tag_is_block(print_str(popped,
                        IF start.tag.kind = "YamlStyle"
                        THEN <<Newline, "-", "-", "-">>
                        ELSE <<Newline, "+", "+", "+">>))
               [] OTHER -> Panic(p)

\* print_event; a panic leaves nothing of the printer to observe but the panic
print_event(p, e, overflow_checks) ==
    LET done ==
            CASE e.ev = "Start" -> print_tag_start(p, e.tag, overflow_checks)
              [] e.ev = "End" -> print_tag_end(p, e.tag)
              [] e.ev = "Text" -> PrintTextEvent(p, e.text)
              [] e.ev = "Code" -> PrintCodeEvent(p, e.text)
              [] e.ev = "Html" -> print_block(p, e.text)
              [] e.ev = "InlineHtml" -> print_str(p, e.text)
              [] e.ev = "FootnoteReference" ->
                    print_string(p, <<"[", "^">> \o e.text \o <<"]">>)
              [] e.ev = "SoftBreak" -> print_str(p, <<Newline>>)
              [] e.ev = "HardBreak" -> print_str(p, <<" ", " ", Newline>>)
              [] e.ev = "Rule" -> tag_is_block(print_block(p, <<"-", "-", "-">>))
              [] e.ev = "TaskListMarker" ->
                    print_str(p, IF e.checked THEN <<"[", "x", "]", " ">>
                                 ELSE <<"[", " ", "]", " ">>)
    IN  IF done.panicked THEN Panic(p) ELSE done

\* inputs: the payloads the printer's events are drawn from
MaxPrinted == 4
PrinterTexts == {<<"a">>, <<"H", "i">>, <<Backtick, Backtick>>, <<"a", Newline>>}
PrinterCodes == {<<"a">>, <<"a", Backtick>>, <<Backtick, "a", Backtick, Backtick>>}
PrinterHeadingLevels == {1, 2}
PrinterListOrders == {<<1>>, U64Max}
PrinterTitles == {<<>>, <<"t">>}
PrinterImageTitles == {<<" ">>}
\* arithmetic overflow panics in a build with overflow checks and wraps in one
\* without
OverflowChecks == BOOLEAN

PrinterInit ==
    /\ printer = Printer
    /\ printed = <<>>

\* the for loop of Printer::print is still running
Printing == ~printer.panicked /\ Len(printed) < MaxPrinted

\* the loop hands one more event to print_event; printed keeps the events
\* that print_event has returned from
PrintEvent(e) ==
    /\ \E overflow_checks \in OverflowChecks :
         printer' = print_event(printer, e, overflow_checks)
    /\ printed' = IF printer'.panicked THEN printed ELSE Append(printed, e)
    /\ UNCHANGED <<content_vars, compat_vars, parser_vars, serializer_vars, builder_vars>>

\* the start tags the events carry, one for each arm of print_tag_start
PrinterStartTags ==
    {[name |-> name] : name \in {"Paragraph", "BlockQuote", "HtmlBlock", "Item", "TableHead",
                                  "TableRow", "TableCell", "Emphasis", "Strong",
                                  "Strikethrough"}}
    \cup {[name |-> "Heading", level |-> level] : level \in PrinterHeadingLevels}
    \cup {[name |-> "CodeBlock", kind |-> "Fenced", params |-> params] : params \in FenceParams}
    \cup {[name |-> "CodeBlock", kind |-> "Indented", params |-> <<>>]}
    \cup {[name |-> "List", ord |-> ord] :
              ord \in {<<>>} \cup {<<order>> : order \in PrinterListOrders}}
    \cup {[name |-> "FootnoteDefinition", label |-> label] : label \in Labels}
    \cup {[name |-> "Table", alignment |-> alignment] : alignment \in Alignments}
    \cup {[name |-> "Link", dest_url |-> <<"u">>, title |-> title] : title \in PrinterTitles}
    \cup {[name |-> "Image", dest_url |-> <<"u">>, title |-> title] :
              title \in PrinterImageTitles}
    \cup {[name |-> "MetadataBlock", kind |-> kind] : kind \in MetadataBlockKinds}

\* the end tags the events carry, one for each TagEnd
PrinterEndTags ==
    {[name |-> name] : name \in {"Paragraph", "BlockQuote", "CodeBlock", "HtmlBlock", "Item",
                                  "FootnoteDefinition", "Table", "TableHead", "TableRow",
                                  "TableCell", "Emphasis", "Strong", "Strikethrough", "Link",
                                  "Image"}}
    \cup {[name |-> "Heading", level |-> level] : level \in PrinterHeadingLevels}
    \cup {[name |-> "List", ordered |-> ordered] : ordered \in BOOLEAN}
    \cup {[name |-> "MetadataBlock", kind |-> kind] : kind \in MetadataBlockKinds}

\* Event::Start(tag) => self.print_tag_start(tag)
PrintStart ==
    /\ Printing
    /\ \E tag \in PrinterStartTags : PrintEvent(Start(tag))

\* Event::End(tag) => self.print_tag_end(tag)
PrintEnd ==
    /\ Printing
    /\ \E tag \in PrinterEndTags : PrintEvent(End(tag))

PrintText ==
    /\ Printing
    /\ \E text \in PrinterTexts :
         PrintEvent(TextEvent("Text", text))

PrintCode ==
    /\ Printing
    /\ \E code \in PrinterCodes :
         PrintEvent(TextEvent("Code", code))

PrintHtml ==
    /\ Printing
    /\ PrintEvent(TextEvent("Html", <<"h">>))

PrintInlineHtml ==
    /\ Printing
    /\ PrintEvent(TextEvent("InlineHtml", <<"h">>))

PrintFootnoteReference ==
    /\ Printing
    /\ \E label \in Labels :
         PrintEvent(TextEvent("FootnoteReference", label))

PrintSoftBreak ==
    /\ Printing
    /\ PrintEvent(LeafEvent("SoftBreak"))

PrintHardBreak ==
    /\ Printing
    /\ PrintEvent(LeafEvent("HardBreak"))

PrintRule ==
    /\ Printing
    /\ PrintEvent(LeafEvent("Rule"))

PrintTaskListMarker ==
    /\ Printing
    /\ \E checked \in BOOLEAN :
         PrintEvent(TaskListMarkerEvent(checked))

PrinterNext ==
    \/ PrintStart
    \/ PrintEnd
    \/ PrintText
    \/ PrintCode
    \/ PrintHtml
    \/ PrintInlineHtml
    \/ PrintFootnoteReference
    \/ PrintSoftBreak
    \/ PrintHardBreak
    \/ PrintRule
    \/ PrintTaskListMarker

(***************************************************************************)
(* The specifications                                                      *)
(***************************************************************************)
Init ==
    ParserInit /\ ContentIdle /\ CompatIdle /\ SerializerIdle /\ PrinterInit /\ BuilderIdle

Next ==
       \/ StartParagraph \/ StartHeading \/ StartBlockQuote \/ StartCodeBlock
       \/ StartList \/ StartItem \/ StartFootnoteDefinition \/ StartTable
       \/ StartTableHead \/ StartTableRow \/ StartTableCell \/ StartMetadataBlock
       \/ StartImage \/ StartEmphasis \/ StartStrong \/ StartStrikethrough
       \/ StartLink \/ StartHtmlBlock
       \/ EndParagraph \/ EndHeading \/ EndBlockQuote \/ EndCodeBlock \/ EndList
       \/ EndItem \/ EndFootnoteDefinition \/ EndTable \/ EndTableHead
       \/ EndTableRow \/ EndTableCell \/ EndMetadataBlock \/ EndImage
       \/ EndHtmlBlock \/ EndEmphasis \/ EndStrong \/ EndStrikethrough \/ EndLink
       \/ EventText \/ EventCode \/ EventInlineHtml \/ EventHtml
       \/ EventFootnoteReference \/ EventSoftBreak \/ EventHardBreak \/ EventRule
       \/ EventTaskListMarker
       \/ EndOfStream

(***************************************************************************)
(* Printer::print on the event stream of a Rule and one table: a header of *)
(* cells and body rows of cells, each cell with at most one Text event, as *)
(* the tokenizer and the serializer emit them                              *)
(***************************************************************************)
\* most body rows of the table, and most cells of one row
MaxTableRows == 1
MaxTableCells == 2
\* cell texts shorter and longer than the least column width
TableTexts == {<<"a">>, <<"a", "b", "c", "d">>}

\* the innermost open tag
OpenTag(name) ==
    /\ ~printer.panicked
    /\ printer.tag_stack # <<>>
    /\ Top(printer.tag_stack).tag.name = name

LastPrinted == printed[Len(printed)]

\* a Rule before the table, so that the table is not the first block
TablePreamble ==
    /\ ~printer.panicked
    /\ printed = <<>>
    /\ PrintEvent(LeafEvent("Rule"))

TableStart ==
    /\ ~printer.panicked
    /\ printed = <<LeafEvent("Rule")>>
    /\ \E alignment \in Alignments : PrintEvent(Start([name |-> "Table", alignment |-> alignment]))

TableHeadStart ==
    /\ OpenTag("Table")
    /\ LastPrinted.ev = "Start"
    /\ PrintEvent(Start([name |-> "TableHead"]))

TableHeadEnd ==
    /\ OpenTag("TableHead")
    /\ PrintEvent(End([name |-> "TableHead"]))

TableRowStart ==
    /\ OpenTag("Table")
    /\ LastPrinted.ev = "End"
    /\ Len(printer.table_context[1].rows) < MaxTableRows
    /\ PrintEvent(Start([name |-> "TableRow"]))

TableRowEnd ==
    /\ OpenTag("TableRow")
    /\ PrintEvent(End([name |-> "TableRow"]))

TableCellStart ==
    /\ \/ OpenTag("TableHead") /\ Len(printer.table_context[1].header) < MaxTableCells
       \/ OpenTag("TableRow") /\ Len(Top(printer.table_context[1].rows)) < MaxTableCells
    /\ PrintEvent(Start([name |-> "TableCell"]))

TableCellText ==
    /\ OpenTag("TableCell")
    /\ LastPrinted.ev = "Start"
    /\ \E text \in TableTexts : PrintEvent(TextEvent("Text", text))

TableCellEnd ==
    /\ OpenTag("TableCell")
    /\ PrintEvent(End([name |-> "TableCell"]))

TableEnd ==
    /\ OpenTag("Table")
    /\ LastPrinted.ev = "End"
    /\ PrintEvent(End([name |-> "Table"]))

TableNext ==
    \/ TablePreamble
    \/ TableStart
    \/ TableHeadStart
    \/ TableHeadEnd
    \/ TableRowStart
    \/ TableRowEnd
    \/ TableCellStart
    \/ TableCellText
    \/ TableCellEnd
    \/ TableEnd

(***************************************************************************)
(* Printer::print on the event stream of one list: items with at most one  *)
(* Text event and then at most one nested list, as the tokenizer and the   *)
(* serializer emit them                                                    *)
(***************************************************************************)
\* most lists open at once, and most items of one list
MaxListDepth == 2
MaxListItems == 2
\* starting orders: one whose successor has one more digit, and the largest
ListStarts == {<<9>>, U64Max}

\* the Item starts of the innermost list that is open after the first i
\* events, depth counting the lists that were closed after them
RECURSIVE ItemsStarted(_, _, _)
ItemsStarted(events, i, depth) ==
    IF i = 0 THEN 0
    ELSE LET e == events[i]
         IN  IF e.ev = "End" /\ e.tag.name = "List"
             THEN ItemsStarted(events, i - 1, depth + 1)
             ELSE IF e.ev = "Start" /\ e.tag.name = "List"
             THEN IF depth = 0 THEN 0 ELSE ItemsStarted(events, i - 1, depth - 1)
             ELSE IF e.ev = "Start" /\ e.tag.name = "Item" /\ depth = 0
             THEN ItemsStarted(events, i - 1, depth) + 1
             ELSE ItemsStarted(events, i - 1, depth)

OpenLists ==
    Cardinality({i \in 1..Len(printer.tag_stack) : printer.tag_stack[i].tag.name = "List"})

ListTagStart ==
    /\ ~printer.panicked
    /\ printed = <<>> \/ (OpenTag("Item") /\ LastPrinted.ev # "End")
    /\ OpenLists < MaxListDepth
    /\ \E ord \in {<<>>} \cup {<<order>> : order \in ListStarts} :
         PrintEvent(Start([name |-> "List", ord |-> ord]))

ListItemStart ==
    /\ OpenTag("List")
    /\ ItemsStarted(printed, Len(printed), 0) < MaxListItems
    /\ PrintEvent(Start([name |-> "Item"]))

ListItemText ==
    /\ OpenTag("Item")
    /\ LastPrinted.ev = "Start"
    /\ PrintEvent(TextEvent("Text", <<"a">>))

ListItemEnd ==
    /\ OpenTag("Item")
    /\ PrintEvent(End([name |-> "Item"]))

ListTagEnd ==
    /\ OpenTag("List")
    /\ LastPrinted.ev = "End"
    /\ PrintEvent(End([name |-> "List",
                       ordered |-> Top(printer.tag_stack).tag.ord # <<>>]))

ListNext ==
    \/ ListTagStart
    \/ ListItemStart
    \/ ListItemText
    \/ ListItemEnd
    \/ ListTagEnd

(***************************************************************************)
(* Printer::print on a stream of fenced code blocks with texts and inline  *)
(* code before and between them                                            *)
(***************************************************************************)
\* longest stream of the code blocks
MaxFenceEvents == 5

\* the loop of Printer::print is running on the stream of the code blocks
Fencing == ~printer.panicked /\ Len(printed) < MaxFenceEvents

FenceStart ==
    /\ Fencing
    /\ printer.tag_stack = <<>>
    /\ \E params \in FenceParams :
         PrintEvent(Start([name |-> "CodeBlock", kind |-> "Fenced", params |-> params]))

FenceText ==
    /\ Fencing
    /\ OpenTag("CodeBlock")
    /\ \E text \in PrinterTexts : PrintEvent(TextEvent("Text", text))

FenceEnd ==
    /\ Fencing
    /\ OpenTag("CodeBlock")
    /\ PrintEvent(End([name |-> "CodeBlock"]))

\* a Text or a Code event outside the code blocks
FenceOutside ==
    /\ Fencing
    /\ printer.tag_stack = <<>>
    /\ \/ \E text \in PrinterTexts : PrintEvent(TextEvent("Text", text))
       \/ \E code \in PrinterCodes : PrintEvent(TextEvent("Code", code))

FenceNext ==
    \/ FenceStart
    \/ FenceText
    \/ FenceEnd
    \/ FenceOutside

(***************************************************************************)
(* to_markdown: Printer::print on the events of MarkdownSerializer::new    *)
(***************************************************************************)
\* inputs: the trees handed to to_markdown, each block filled with the same
\* inline children
RenderMarkSets == {<<>>, <<MarkEm>>, <<MarkStrong, MarkEm>>, <<MarkCode>>}
RenderInlines ==
    {TextNode(<<"a">>, node_marks) : node_marks \in RenderMarkSets}
        \cup {AttrNode("Image", AttrsImage(<<"u">>, <<>>, <<>>), <<>>)}
RenderFragments == UNION {[1..n -> RenderInlines] : n \in 0..MaxInline}
RenderParagraph(children) == Block("Paragraph", children)
RenderItem(children) == Block("ListItem", <<RenderParagraph(children)>>)
RenderTrees ==
    UNION {{Block("Doc", children),
            Block("Doc", <<Block("Blockquote", <<RenderParagraph(children),
                                                 RenderParagraph(children)>>)>>),
            Block("Doc", <<Block("Blockquote",
                                 <<AttrNode("CodeBlock", AttrsCodeBlock(<<"r">>), children)>>)>>),
            Block("Doc", <<AttrNode("BulletList", AttrsBulletList,
                                    <<RenderItem(children), RenderItem(children)>>)>>),
            Block("Doc", <<AttrNode("OrderedList", AttrsOrderedList(<<1>>),
                                    <<Block("ListItem",
                                            <<RenderParagraph(children),
                                              AttrNode("BulletList", AttrsBulletList,
                                                       <<RenderItem(children)>>)>>)>>)>>),
            Block("Doc", <<RenderItem(children)>>),
            Block("Doc", <<Block("TableRow", <<RenderParagraph(children)>>)>>),
            Block("Doc", <<Block("TableCell", children)>>),
            Block("Doc", <<AttrNode("Table", AttrsTable(<<>>),
                                    <<Block("TableHead", <<Block("TableCell", children)>>),
                                      Block("TableRow", <<Block("TableCell", children)>>)>>)>>),
            Block("Doc", <<AttrNode("Heading", AttrsHeading(1), children),
                           RenderParagraph(children)>>),
            Block("Doc", <<Block("Metadata", children), Leaf("HorizontalRule", NoAttrs),
                           RenderParagraph(children)>>),
            Block("Doc", <<AttrNode("FootnoteDefinition", AttrsFootnoteDefinition(<<"f">>),
                                    children)>>)}
           : children \in RenderFragments}

RenderInit ==
    /\ doc \in RenderTrees
    /\ serializer = new(doc)
    /\ emitted = <<>>
    /\ exhausted = FALSE
    /\ printer = Printer
    /\ printed = <<>>

\* for event in events { printer.print_event(event) }: the iterator gives an
\* event and the printer prints it
RenderEvent ==
    /\ ~exhausted
    /\ ~printer.panicked
    /\ next(serializer).item # NoItem
    /\ serializer' = next(serializer).self
    /\ emitted' = Append(emitted, next(serializer).item[1])
    /\ \E overflow_checks \in OverflowChecks :
         printer' = print_event(printer, next(serializer).item[1], overflow_checks)
    /\ printed' = IF printer'.panicked THEN printed
                  ELSE Append(printed, next(serializer).item[1])
    /\ UNCHANGED <<doc, exhausted, content_vars, compat_vars, parser_vars, builder_vars>>

\* the iterator is exhausted and to_markdown returns Ok(buf)
RenderReturn ==
    /\ ~exhausted
    /\ ~printer.panicked
    /\ next(serializer).item = NoItem
    /\ serializer' = next(serializer).self
    /\ exhausted' = TRUE
    /\ UNCHANGED <<doc, emitted, content_vars, compat_vars, parser_vars, printer_vars,
                   builder_vars>>

RenderNext ==
    \/ RenderEvent
    \/ RenderReturn

InitContent ==
    ContentInit /\ CompatIdle /\ ParserIdle /\ SerializerIdle /\ PrinterInit /\ BuilderIdle
InitCompat ==
    CompatInit /\ ContentIdle /\ ParserIdle /\ SerializerIdle /\ PrinterInit /\ BuilderIdle
InitSerializer ==
    SerializerInit /\ ContentIdle /\ CompatIdle /\ ParserIdle /\ PrinterInit /\ BuilderIdle
InitPrinter ==
    PrinterInit /\ ContentIdle /\ CompatIdle /\ ParserIdle /\ SerializerIdle /\ BuilderIdle

InitNode ==
    NodeInit /\ CompatIdle /\ ParserIdle /\ SerializerIdle /\ PrinterInit /\ BuilderIdle
SpecNode == InitNode /\ [][NodeNext]_vars
SpecContent == InitContent /\ [][ContentNext]_vars
SpecCompat == InitCompat /\ [][CompatNext]_vars
Spec == Init /\ [][Next]_vars
SpecSerializer == InitSerializer /\ [][SerializerNext]_vars

SpecPrinter == InitPrinter /\ [][PrinterNext]_vars
\* Printer::print on the streams of at most MaxShort events
MaxShort == 3
Short == Len(printed) < MaxShort
ShortNext ==
    \/ Short /\ PrintStart
    \/ Short /\ PrintEnd
    \/ Short /\ PrintText
    \/ Short /\ PrintCode
    \/ Short /\ PrintHtml
    \/ Short /\ PrintInlineHtml
    \/ Short /\ PrintFootnoteReference
    \/ Short /\ PrintSoftBreak
    \/ Short /\ PrintHardBreak
    \/ Short /\ PrintRule
    \/ Short /\ PrintTaskListMarker
SpecPrinterShort == InitPrinter /\ [][ShortNext]_vars
InitTable ==
    PrinterInit /\ ContentIdle /\ CompatIdle /\ ParserIdle /\ SerializerIdle /\ BuilderIdle
SpecTable == InitTable /\ [][TableNext]_vars
SpecList == InitPrinter /\ [][ListNext]_vars
SpecFence == InitPrinter /\ [][FenceNext]_vars
InitRender == RenderInit /\ ContentIdle /\ CompatIdle /\ ParserIdle /\ BuilderIdle
SpecRender == InitRender /\ [][RenderNext]_vars
InitBuilder ==
    BuilderInit /\ ContentIdle /\ CompatIdle /\ ParserIdle /\ SerializerIdle /\ PrinterInit
SpecBuilder == InitBuilder /\ [][BuilderNext]_vars
ReparseNext == NextSome \/ NextNone \/ Reparse
SpecReparse == InitSerializer /\ [][ReparseNext]_vars

(***************************************************************************)
(* Claims about the content grammar                                        *)
(***************************************************************************)
\* the left fold of match_type over children lo+1..hi, written on the prefix:
\* the state after hi children is the step from the state after hi-1 children
RECURSIVE FoldMatchType(_, _, _, _)
FoldMatchType(symbol, types, lo, hi) ==
    IF hi <= lo THEN symbol
    ELSE LET before == FoldMatchType(symbol, types, lo, hi - 1)
         IN  IF before = None THEN None ELSE match_type(before, types[hi])

CallTypes == [i \in 1..Len(content_call.fragment) |-> content_call.fragment[i].type]

\* C8: valid_content(N, F) is true exactly when the fold of match_type from
\* N.content_match() over the children accepts every child and ends in a state
\* with valid_end; match_fragment_range over a range is that fold restricted to
\* the range, no-match as soon as a child is rejected.
C8_GrammarSoundness ==
    content_ret # Unset =>
        IF content_call.op = "valid_content"
        THEN LET s == FoldMatchType(content_match(content_call.self), CallTypes,
                                    0, Len(content_call.fragment))
             IN  content_ret[1] = (s # None /\ valid_end(s))
        ELSE content_call.op = "match_fragment_range" =>
                 content_ret[1] = FoldMatchType(content_call.self, CallTypes,
                                                content_call.start, content_call.end)

\* C8 witness: a two-child fragment accepted for ListItem (paragraph, then a block)
C8_Witness ==
    /\ content_call.op = "valid_content"
    /\ content_call.self = "ListItem"
    /\ Len(content_call.fragment) = 2
    /\ content_ret = Returned(TRUE)

\* C9: valid_content(node_type, fragment) is true only if the marks of every
\* child are allowed by node_type: a fragment with a marked Text child is not
\* valid content for a node type that does not allow marks.
C9_ValidContentChecksMarks ==
    (content_call.op = "valid_content" /\ content_ret = Returned(TRUE)) =>
        \A i \in 1..Len(content_call.fragment) :
            content_call.fragment[i].marks # <<>> => _allow_marks(content_call.self)

\* the symbols whose + has not been satisfied, and the node types that start
\* in one of them
PlusSymbols == {"BlockPlus", "ListItemPlus"}
PlusNodeTypes == {"Blockquote", "BulletList", "OrderedList", "Table", "TableHead", "TableRow"}

C12_ListItemGrammar ==
    (content_call.op = "valid_content" /\ content_call.self = "ListItem"
        /\ content_ret # Unset) =>
        content_ret[1] =
            /\ Len(content_call.fragment) >= 1
            /\ content_call.fragment[1].type = "Paragraph"
            /\ \A i \in 2..Len(content_call.fragment) :
                   is_block(content_call.fragment[i].type)

BlockSymbols == {"BlockPlus", "BlockStar", "ParagraphBlockStar"}
InlineSymbols == {"InlineStar", "OrTextImageStar", "TextStar"}
ListItemSymbols == {"ListItemPlus", "ListItemStar"}

\* C10 as stated: Star is compatible with everything, the inline symbols, the
\* block symbols and the list-item symbols are mutually compatible, and no pair
\* involving Empty is compatible.
C10_CompatibleTableAsStated ==
    compat_ret # Unset =>
        /\ compat_self = "Star" => compat_ret[1]
        /\ (compat_self \in InlineSymbols /\ compat_other \in InlineSymbols) => compat_ret[1]
        /\ (compat_self \in BlockSymbols /\ compat_other \in BlockSymbols) => compat_ret[1]
        /\ (compat_self \in ListItemSymbols /\ compat_other \in ListItemSymbols) => compat_ret[1]
        /\ (compat_self = "Empty" \/ compat_other = "Empty") => ~compat_ret[1]

\* C10 amended: the table of the code.  Star is compatible with everything
\* (Empty included); the inline symbols and the list-item symbols are mutually
\* compatible; BlockPlus and BlockStar are compatible with all three block
\* symbols, ParagraphBlockStar with BlockPlus and itself but not BlockStar;
\* Empty is compatible with nothing; no other pair is compatible.
C10_CompatibleTable ==
    compat_ret # Unset =>
        compat_ret[1] =
            \/ compat_self = "Star"
            \/ compat_self \in InlineSymbols /\ compat_other \in InlineSymbols
            \/ compat_self \in BlockSymbols /\ compat_other \in BlockSymbols
                 /\ <<compat_self, compat_other>> # <<"ParagraphBlockStar", "BlockStar">>
            \/ compat_self \in ListItemSymbols /\ compat_other \in ListItemSymbols

\* C10 witness: the asymmetric pair has been decided
C10_Witness ==
    /\ compat_self = "ParagraphBlockStar"
    /\ compat_other = "BlockStar"
    /\ compat_ret = Returned(FALSE)

(***************************************************************************)
(* Claims about the tree builder                                           *)
(***************************************************************************)
RECURSIVE TreeSatisfiesGrammar(_)
TreeSatisfiesGrammar(node) ==
    /\ valid_content(node.type, node.content)
    /\ \A i \in 1..Len(node.content) : TreeSatisfiesGrammar(node.content[i])

IsOk(ret) == ret # Unset /\ ret[1].kind = "Ok"
IsErr(ret) == ret # Unset /\ ret[1].kind = "Err"
IsMisplacedEndTag(ret) == IsErr(ret) /\ ret[1].value.err = "MisplacedEndTag"

\* C3: every node of a tree returned as Ok satisfies the content grammar of
\* its node type; a stream whose nesting violates the grammar is rejected.
C3_ParsedTreeSatisfiesGrammar ==
    IsOk(returned) => TreeSatisfiesGrammar(returned[1].value)

\* the frame kinds each frame-closing End tag closes
FrameEndNames ==
    { "Paragraph", "Heading", "BlockQuote", "CodeBlock", "List", "Item",
      "FootnoteDefinition", "Table", "TableHead", "TableRow", "TableCell",
      "MetadataBlock", "Image" }
ClosedBy(name) ==
    CASE name = "BlockQuote" -> {"Blockquote"}
      [] name = "List" -> {"BulletList", "OrderedList"}
      [] name = "Item" -> {"ListItem"}
      [] name = "MetadataBlock" -> {"Metadata"}
      [] OTHER -> {name}

\* a step that processes a frame-closing End event whose popped frame is of
\* another kind
MismatchedEndStep ==
    /\ returned = Unset
    /\ stack # <<>>
    /\ event'.ev = "End"
    /\ event'.tag.name \in FrameEndNames
    /\ Top(stack).attrs.kind \notin ClosedBy(event'.tag.name)

\* C4: a frame-closing End event whose popped frame is not of the kind it
\* closes aborts the parse with MisplacedEndTag carrying the popped attrs.
C4_MismatchedEndAborts ==
    [][MismatchedEndStep =>
          /\ IsMisplacedEndTag(returned')
          /\ returned'[1].value.attrs = Top(stack).attrs]_vars

\* a step that processes a Heading End while the top frame is a Paragraph
HeadingEndOnParagraphStep ==
    /\ returned = Unset
    /\ stack # <<>>
    /\ Top(stack).attrs.kind = "Paragraph"
    /\ event'.ev = "End"
    /\ event'.tag.name = "Heading"

\* C5 as stated: a Heading End on a Paragraph frame yields
\* MisplacedEndTag("Paragraph", Heading(...)).
C5_HeadingEndOnParagraphAsStated ==
    [][HeadingEndOnParagraphStep =>
          /\ IsMisplacedEndTag(returned')
          /\ returned'[1].value.expected = "Paragraph"
          /\ returned'[1].value.attrs.kind = "Heading"]_vars

\* C5 amended: a Heading End on a Paragraph frame yields
\* MisplacedEndTag("Heading", Paragraph): the name is the end tag's, the attrs
\* are the popped frame's.
C5_HeadingEndOnParagraph ==
    [][HeadingEndOnParagraphStep =>
          returned' = Returned(Err(MisplacedEndTag("Heading", AttrsParagraph)))]_vars

\* C5 witness: a Heading End has failed on a Paragraph frame
C5_Witness ==
    /\ event.ev = "End"
    /\ event.tag.name = "Heading"
    /\ IsMisplacedEndTag(returned)
    /\ returned[1].value.attrs = AttrsParagraph

OnlyDocRemains(stk) == Len(stk) = 1 /\ stk[1].attrs.kind = "Doc"

\* C6: at the end of the stream the parse returns Ok only if exactly the Doc
\* frame remains; any other residual stack yields MisplacedEndTag("Doc", ...).
C6_EndOfStreamResidual ==
    [][(returned = Unset /\ event'.ev = "EndOfStream") =>
          /\ IsOk(returned') => OnlyDocRemains(stack)
          /\ ~OnlyDocRemains(stack) =>
                /\ IsMisplacedEndTag(returned')
                /\ returned'[1].value.expected = "Doc"]_vars

\* C7: errors are terminal: once a Result has been returned no later event is
\* processed and the Result stays what it is; an error carries no tree.
C7_ErrorsAreTerminal ==
    [][/\ returned # Unset => UNCHANGED parser_vars
       /\ IsErr(returned') =>
            returned'[1].value.err \in {"StackEmpty", "MisplacedEndTag", "LevelMismatch"}]_vars

\* C7 witness: an event failed while the stream could have gone on
C7_Witness ==
    /\ IsErr(returned)
    /\ event.ev # "EndOfStream"
    /\ nevents < MaxEvents

(***************************************************************************)
(* Claims about the serializer                                             *)
(***************************************************************************)
MarkTagNames == {"Strong", "Emphasis", "Strikethrough", "Link"}
IsMarkEvent(e) == e.ev \in {"Start", "End"} /\ e.tag.name \in MarkTagNames

\* the mark tags left open by the first n events, and whether every mark End
\* among them closed the most recently opened mark that was still open
RECURSIVE OpenMarkTags(_, _)
OpenMarkTags(events, n) ==
    IF n = 0 THEN [open |-> <<>>, nested |-> TRUE]
    ELSE LET before == OpenMarkTags(events, n - 1)
             e == events[n]
         IN  IF ~IsMarkEvent(e) THEN before
             ELSE IF e.ev = "Start" THEN [before EXCEPT !.open = Append(@, e.tag.name)]
             ELSE IF before.open # <<>> /\ Top(before.open) = e.tag.name
                  THEN [before EXCEPT !.open = Rest(@)]
                  ELSE [before EXCEPT !.nested = FALSE]

\* C1: for any tree, the event stream restricted to mark Start/End events is
\* properly nested and balanced: every mark End closes the most recently
\* opened mark that is still open, and when the stream ends every mark Start
\* has been closed.
C1_MarkWellNesting ==
    LET tags == OpenMarkTags(emitted, Len(emitted))
    IN  /\ tags.nested
        /\ exhausted => tags.open = <<>>

(***************************************************************************)
(* Claims about the printer                                                *)
(***************************************************************************)
\* the payloads of events lo..hi, one after the other
RECURSIVE ConcatText(_, _, _)
ConcatText(events, lo, hi) ==
    IF hi < lo THEN <<>> ELSE ConcatText(events, lo, hi - 1) \o events[hi].text

\* C2: for any fenced code block whose text, delivered as one or several Text
\* events between the CodeBlock Start and End, holds a run of k backticks, the
\* printer puts an opening fence where the block started and a closing fence
\* at the end, each of strictly more than k backticks.
C2_CodeFenceSafety ==
    [][\A i \in 1..Len(printed) :
          (/\ printed[i].ev = "Start" /\ IsFencedCodeBlock(printed[i].tag)
           /\ \A j \in (i + 1)..Len(printed) : printed[j].ev = "Text"
           /\ printed' = Append(printed, End([name |-> "CodeBlock"])))
          => LET text == ConcatText(printed, i + 1, Len(printed))
                 k == BacktickFold(text, Len(text)).max_acc
                 fence == (buffer_len(printer') - buffer_len(printer)) \div 2
                 at == Top(printer.tag_stack).range.start
             IN  /\ fence > k
                 /\ buffer(printer') =
                        SubSeq(buffer(printer), 1, at) \o repeat(<<Backtick>>, fence)
                            \o SubSeq(buffer(printer), at + 1, buffer_len(printer))
                            \o repeat(<<Backtick>>, fence)]_vars

(***************************************************************************)
(* Claims about the table printer                                          *)
(***************************************************************************)
\* the header and the body rows of a table context, as sequences of cell texts
TableRowsOf(ctx) ==
    LET all == <<ctx.header>> \o ctx.rows
    IN  [r \in 1..Len(all) |-> [c \in 1..Len(all[r]) |-> Slice(ctx.buffer, all[r][c])]]

\* the text of the cell in column c of a row, blank when the row is shorter
CellOf(row, c) == IF c <= Len(row) THEN row[c] ELSE <<>>

\* the number of columns: the largest cell count over the first n rows
RECURSIVE ColumnCount(_, _)
ColumnCount(rows, n) ==
    IF n = 0 THEN 0 ELSE Max(Len(rows[n]), ColumnCount(rows, n - 1))

\* max(3, longest cell of column c over the first n rows)
RECURSIVE ColumnWidth(_, _, _)
ColumnWidth(rows, c, n) ==
    IF n = 0 THEN 3 ELSE Max(Len(CellOf(rows[n], c)), ColumnWidth(rows, c, n - 1))

\* a line of the table: the first n columns, each cell filled up to the width
\* of its column with the fill character
RECURSIVE TableLine(_, _, _, _, _)
TableLine(rows, row, fill, n, columns) ==
    IF n = 0 THEN <<>>
    ELSE LET width == ColumnWidth(rows, n, Len(rows))
             cell == CellOf(row, n)
         IN  TableLine(rows, row, fill, n - 1, columns)
                 \o <<"|", " ">> \o cell \o repeat(<<fill>>, width - Len(cell)) \o <<" ">>
                 \o (IF n = columns THEN <<"|", Newline>> ELSE <<>>)

\* lines lo..hi of the rows, one after the other
RECURSIVE TableLines(_, _, _)
TableLines(rows, lo, hi) ==
    IF hi < lo THEN <<>>
    ELSE TableLines(rows, lo, hi - 1)
             \o TableLine(rows, rows[hi], " ", ColumnCount(rows, Len(rows)),
                          ColumnCount(rows, Len(rows)))

\* the table as the claim lays it out: header line, dash line, body lines
ExpectedTable(ctx) ==
    LET rows == TableRowsOf(ctx)
        columns == ColumnCount(rows, Len(rows))
    IN  IF columns = 0
        THEN repeat(<<"|", Newline>>, Len(rows) + 1)
        ELSE TableLines(rows, 1, 1) \o TableLine(rows, <<>>, "-", columns, columns)
                 \o TableLines(rows, 2, Len(rows))

\* the length every line of the table has
TableLineLen(ctx) ==
    LET rows == TableRowsOf(ctx)
        columns == ColumnCount(rows, Len(rows))
        line == TableLine(rows, <<>>, "-", columns, columns)
    IN  IF columns = 0 THEN 2 ELSE Len(line)

\* C13: on Table end the printer appends the header line, the dash line and
\* the body lines; all have as many columns as the longest row (shorter rows
\* get blank cells), every cell is filled with spaces to the width
\* max(3, longest cell of its column), so all lines are equally long.
C13_TableAlignment ==
    [][(/\ OpenTag("Table")
        /\ printed' = Append(printed, End([name |-> "Table"])))
       => LET ctx == printer.table_context[1]
              out == SubSeq(printer'.buffer, Len(printer.buffer) + 1, Len(printer'.buffer))
              lines == Len(ctx.rows) + 2
          IN  /\ printer'.buffer = printer.buffer \o ExpectedTable(ctx)
              /\ Len(out) = lines * TableLineLen(ctx)
              /\ \A k \in 1..lines : out[k * TableLineLen(ctx)] = Newline]_vars

\* C13 witness: a table has been printed whose body row is shorter than its
\* header and whose header holds a cell longer than the least width
C13_Witness ==
    /\ printed # <<>>
    /\ LastPrinted = End([name |-> "Table"])
    /\ \E i \in 1..Len(printed) : printed[i] = TextEvent("Text", <<"a", "b", "c", "d">>)
    /\ \E i \in 1..(Len(printed) - 3) :
          /\ printed[i] = Start([name |-> "TableRow"])
          /\ printed[i + 1] = Start([name |-> "TableCell"])
          /\ printed[i + 3] = End([name |-> "TableRow"])
    /\ \E i \in 1..(Len(printed) - 3) :
          /\ printed[i] = End([name |-> "TableCell"])
          /\ printed[i + 1] = Start([name |-> "TableCell"])
          /\ printed[i + 3] = End([name |-> "TableHead"])

(***************************************************************************)
(* Claims about the ambient mark set of the tree builder                   *)
(***************************************************************************)
\* the mark type an inline tag stands for
MarkTypeOfTag(name) == IF name = "Emphasis" THEN "Em" ELSE name

\* the loop has taken one more event in this step
TakesEvent == nevents' = nevents + 1

\* C20: a Start or End of an inline mark (Emphasis, Strong, Strikethrough,
\* Link) leaves the frame stack as it is and only adds a mark of its type to
\* the ambient mark set or removes the marks of its type from it; a Text or
\* SoftBreak event appends to the top frame one Text node that carries the
\* ambient mark set as it stands, and leaves the mark set alone.
C20_MarkEventsKeepFrames ==
    [][/\ (TakesEvent /\ IsMarkEvent(event')) =>
              /\ stack' = stack
              /\ returned' = Unset
              /\ event'.ev = "Start" =>
                     /\ \A i \in 1..Len(mark_set) : MarkSetContains(mark_set', mark_set[i])
                     /\ \E i \in 1..Len(mark_set') :
                            mark_set'[i].type = MarkTypeOfTag(event'.tag.name)
                     /\ Len(mark_set') <= Len(mark_set) + 1
              /\ event'.ev = "End" =>
                     mark_set' = SelectSeq(mark_set,
                                           LAMBDA m : m.type # MarkTypeOfTag(event'.tag.name))
       /\ (TakesEvent /\ event'.ev \in {"Text", "SoftBreak"} /\ returned' = Unset) =>
              /\ mark_set' = mark_set
              /\ Len(stack') = Len(stack)
              /\ Rest(stack') = Rest(stack)
              /\ Top(stack').attrs = Top(stack).attrs
              /\ LET node == Top(Top(stack').content)
                 IN  /\ Top(stack').content = Append(Top(stack).content, node)
                     /\ node.type = "Text"
                     /\ node.marks = mark_set
                     /\ node.text = IF event'.ev = "Text" THEN event'.text ELSE <<Newline>>]_vars

\* C20 witness: a Text node made inside an open mark, with the frame stack at
\* the depth it had before the mark was opened
C20_Witness ==
    /\ event.ev \in {"Text", "SoftBreak"}
    /\ returned = Unset
    /\ Len(stack) = 1
    /\ mark_set # <<>>
    /\ Top(stack).content # <<>>
    /\ Top(Top(stack).content).marks = mark_set

(***************************************************************************)
(* Claims about the events of the serializer                               *)
(***************************************************************************)
NoNode == [type |-> "None"]
LeafNodeTypes == {"Text", "HorizontalRule", "HardBreak", "TaskListMarker"}
TagMarkTypes == {"Strong", "Em", "Strikethrough", "Link"}
SelfClosingMarkTypes == {"Code", "Footnote", "HtmlTag"}
TextCarrying == {"Text", "Code", "FootnoteReference", "Html"}

\* the node whose arm of next() returns the item of the coming call
RECURSIVE EmittingNode(_)
EmittingNode(self) ==
    IF self.stack # <<>> \/ self.inner = <<>> THEN NoNode
    ELSE LET node == Top(self.inner).node
             index == Top(self.inner).index
             popped == [self EXCEPT !.inner = Rest(@)]
             descend == EmittingNode(process_content(popped, index, node.content, node).self)
         IN  IF node.type = "Doc" THEN descend
             ELSE IF node.type \in LeafNodeTypes THEN node
             ELSE IF index # 0 /\ index < Len(node.content) THEN descend
             ELSE node

\* the step emits the event that carries the text of a Text node
EmitsTextOf(node) ==
    /\ ~exhausted
    /\ node = EmittingNode(serializer)
    /\ node.type = "Text"
    /\ emitted' # emitted
    /\ Top(emitted').ev \in TextCarrying

\* C16: when the serializer emits the event carrying a Text node's text, every
\* mark on its open-mark stack is in the node's mark set, every mark of the
\* node that is written as a tag (Strong, Em, Strikethrough, Link) is on the
\* stack, and no mark is on the stack twice.
C16_OpenMarksMatchText ==
    [][LET node == EmittingNode(serializer)
           open == serializer.marks
       IN  EmitsTextOf(node) =>
               /\ \A i \in 1..Len(open) : MarkSetContains(node.marks, open[i])
               /\ \A j \in 1..Len(node.marks) :
                      node.marks[j].type \in TagMarkTypes => MarkSetContains(open, node.marks[j])
               /\ \A i, k \in 1..Len(open) : open[i] = open[k] => i = k]_vars

\* the Text nodes of a tree in document order; the newline a CodeBlock gets
\* before its End counts as an unmarked Text node
RECURSIVE TextNodesOf(_)
RECURSIVE TextNodesOfChildren(_, _)
TextNodesOfChildren(content, n) ==
    IF n = 0 THEN <<>> ELSE TextNodesOfChildren(content, n - 1) \o TextNodesOf(content[n])
TextNodesOf(node) ==
    IF node.type = "Text" THEN <<node>>
    ELSE TextNodesOfChildren(node.content, Len(node.content))
             \o (IF node.type = "CodeBlock" THEN <<TextNode(<<Newline>>, <<>>)>> ELSE <<>>)

\* the leaf event that stands for a self-closing mark
LeafEventOfMark(mark_type) ==
    CASE mark_type = "Code" -> "Code"
      [] mark_type = "Footnote" -> "FootnoteReference"
      [] mark_type = "HtmlTag" -> "Html"

\* C17: no self-closing mark (Code, Footnote, HtmlTag) is ever on the open-mark
\* stack, and the events that carry text are, in document order, one for each
\* Text node with the node's text as payload: the leaf event of a self-closing
\* mark of the node when it carries one, a plain Text event when it does not.
C17_SelfClosingMarks ==
    /\ \A i \in 1..Len(serializer.marks) : serializer.marks[i].type \in TagMarkTypes
    /\ exhausted =>
          LET texts == SelectSeq(emitted, LAMBDA e : e.ev \in TextCarrying)
              nodes == TextNodesOf(doc)
          IN  /\ Len(texts) = Len(nodes)
              /\ \A i \in 1..Len(texts) :
                    LET kinds == {LeafEventOfMark(nodes[i].marks[j].type) :
                                    j \in {k \in 1..Len(nodes[i].marks) :
                                              nodes[i].marks[k].type \in SelfClosingMarkTypes}}
                    IN  /\ texts[i].text = nodes[i].text
                        /\ texts[i].ev \in (IF kinds = {} THEN {"Text"} ELSE kinds)

\* C17 witness: a Text node with a tag mark and a self-closing mark has been
\* rendered
C17_Witness ==
    /\ exhausted
    /\ \E i \in 1..Len(TextNodesOf(doc)) : TextNodesOf(doc)[i].marks = <<MarkStrong, MarkCode>>
    /\ \E i \in 1..Len(emitted) : emitted[i].ev = "Code"

\* the events of a tree with the mark tags left out and every event that
\* carries a Text node's text written as a Text event: a Start, the events of
\* the children in child order, and an End (the root Doc has no tag)
RECURSIVE NodeEvents(_)
RECURSIVE ChildrenEvents(_, _)
ChildrenEvents(content, n) ==
    IF n = 0 THEN <<>> ELSE ChildrenEvents(content, n - 1) \o NodeEvents(content[n])
NodeEvents(node) ==
    CASE node.type = "Text" -> <<TextEvent("Text", node.text)>>
      [] node.type = "HorizontalRule" -> <<LeafEvent("Rule")>>
      [] node.type = "HardBreak" -> <<LeafEvent("HardBreak")>>
      [] node.type = "TaskListMarker" -> <<TaskListMarkerEvent(node.attrs.checked)>>
      [] node.type = "Doc" -> ChildrenEvents(node.content, Len(node.content))
      [] OTHER ->
            <<Start(map(node))>> \o ChildrenEvents(node.content, Len(node.content))
                \o (IF node.type = "CodeBlock" THEN <<TextEvent("Text", <<Newline>>)>> ELSE <<>>)
                \o <<End(to_end(map(node)))>>

\* an emitted stream without its mark tags, text events written as Text
RECURSIVE WithoutMarks(_, _)
WithoutMarks(events, n) ==
    IF n = 0 THEN <<>>
    ELSE LET e == events[n]
         IN  WithoutMarks(events, n - 1)
                 \o (IF IsMarkEvent(e) THEN <<>>
                     ELSE IF e.ev \in TextCarrying THEN <<TextEvent("Text", e.text)>>
                     ELSE <<e>>)

\* C18: for every block or attributed node below the root the serializer emits
\* exactly one Start and one End of the node's kind, the Start before and the
\* End after every event of its children, the children's events in child order.
C18_StartChildrenEnd ==
    exhausted => WithoutMarks(emitted, Len(emitted)) = NodeEvents(doc)

\* C18 witness: a list with an item and a rule after it has been rendered, the
\* paragraph of the item with two children
C18_Witness ==
    /\ exhausted
    /\ Len(doc.content) = 2
    /\ doc.content[1].type = "BulletList"
    /\ Len(doc.content[1].content[1].content[1].content) = 2

(***************************************************************************)
(* Claims about whole runs of the tree builder                             *)
(***************************************************************************)
\* the stream in which every run of adjacent Text events is one Text event
RECURSIVE Coalesced(_)
Coalesced(events) ==
    IF events = <<>> THEN <<>>
    ELSE LET rest == Coalesced(Tail(events))
         IN  IF Head(events).ev = "Text" /\ rest # <<>> /\ rest[1].ev = "Text"
             THEN <<TextEvent("Text", Head(events).text \o rest[1].text)>> \o Tail(rest)
             ELSE <<Head(events)>> \o rest

HasAdjacentTexts(events) ==
    \E i \in 1..(Len(events) - 1) : events[i].ev = "Text" /\ events[i + 1].ev = "Text"

\* C14: the tree builder handles merged and unmerged text identically: the
\* result of deserialize on an event stream is its result on the same stream
\* with every run of adjacent Text events coalesced into one Text event
C14_MergedAndUnmergedText ==
    \A usize_bits \in UsizeBits :
        built = Returned(deserialize(tokens, usize_bits))
            => built = Returned(deserialize(Coalesced(tokens), usize_bits))

\* a parse that succeeded on a stream with a run of Text events in a code
\* block, where the merged text loses its trailing newline
C14_Witness ==
    /\ built # Unset
    /\ built[1].kind = "Ok"
    /\ HasAdjacentTexts(tokens)
    /\ \E i \in 1..Len(built[1].value.content) :
         /\ built[1].value.content[i].type = "CodeBlock"
         /\ built[1].value.content[i].content = <<TextNode(<<"a">>, <<>>)>>

\* the tree handed to the serializer is a document of one CodeBlock
IsCodeBlockDoc ==
    /\ doc.type = "Doc"
    /\ Len(doc.content) = 1
    /\ doc.content[1].type = "CodeBlock"

\* C19: the serializer's synthetic newline restores exactly what the parser
\* stripped: the serializer's events for a CodeBlock, fed to the tree builder
\* with adjacent Text events coalesced, give a CodeBlock with the content of
\* the original, also when it has no Text child; and the event right before
\* End(CodeBlock) is always a Text event with the payload "\n"
C19_SyntheticNewlineRestores ==
    (built # Unset /\ IsCodeBlockDoc) =>
        /\ built[1].kind = "Ok"
        /\ Len(built[1].value.content) = 1
        /\ built[1].value.content[1].type = "CodeBlock"
        /\ built[1].value.content[1].content = doc.content[1].content
        /\ \A i \in 1..Len(tokens) :
             tokens[i] = End([name |-> "CodeBlock"])
                 => i > 1 /\ tokens[i - 1] = TextEvent("Text", <<Newline>>)

(***************************************************************************)
(* Claims about the leaf events and the End arms of the tree builder       *)
(***************************************************************************)
\* the mark that a leaf event adds to the node it makes
MarkOfLeafEvent(e) ==
    CASE e.ev = "Code" -> MarkCode
      [] e.ev \in {"InlineHtml", "Html"} -> MarkHtmlTag
      [] e.ev = "FootnoteReference" -> MarkFootnote(e.text)

\* the node that this step has added to the top frame
AddedNode == Top(Top(stack').content)

\* the step adds one node to the top frame and leaves the other frames alone
AddsOneNode ==
    /\ Len(stack') = Len(stack)
    /\ Rest(stack') = Rest(stack)
    /\ Top(stack').attrs = Top(stack).attrs
    /\ Rest(Top(stack').content) = Top(stack).content

\* C21: the leaf events Code, InlineHtml, Html and FootnoteReference add
\* their mark (Code, HtmlTag, Footnote with the label) only to the one Text
\* node they make: the node's marks are the ambient marks plus the added
\* mark, the ambient marks are the same after the event as before, and a
\* Text node made later does not carry a mark of these types
C21_LeafMarksStayLocal ==
    [][(TakesEvent /\ returned' = Unset) =>
           /\ event'.ev \in {"Code", "InlineHtml", "Html", "FootnoteReference"} =>
                  /\ mark_set' = mark_set
                  /\ AddsOneNode
                  /\ AddedNode.type = "Text"
                  /\ AddedNode.text = event'.text
                  /\ AddedNode.marks = Append(mark_set, MarkOfLeafEvent(event'))
           /\ event'.ev \in {"Text", "SoftBreak"} =>
                  /\ AddedNode.marks = mark_set
                  /\ \A i \in 1..Len(AddedNode.marks) :
                         AddedNode.marks[i].type \notin SelfClosingMarkTypes]_vars

\* C21 witness: a Text node without the Code mark right after a node made by
\* a Code event inside an open mark
C21_Witness ==
    /\ returned = Unset
    /\ event.ev = "Text"
    /\ Len(stack) = 1
    /\ Len(Top(stack).content) = 2
    /\ Top(stack).content[1].marks = <<MarkStrong, MarkCode>>
    /\ Top(stack).content[2].marks = <<MarkStrong>>

\* a step that closes the top frame with the End tag of its kind
ClosesFrame ==
    /\ TakesEvent
    /\ returned' = Unset
    /\ event'.ev = "End"
    /\ event'.tag.name \in FrameEndNames
    /\ stack # <<>>
    /\ Top(stack).attrs.kind \in ClosedBy(event'.tag.name)

\* the node made of the closed frame is added to the frame below it
AddsClosedFrame ==
    /\ Len(stack') = Len(stack) - 1
    /\ Rest(stack') = Rest(Rest(stack))
    /\ Rest(Top(stack').content) = Top(Rest(stack)).content

\* the children with one trailing newline removed from the last of them when
\* it is a Text node
LastTextTrimmed(content) ==
    IF content = <<>> THEN content
    ELSE IF Top(content).type # "Text" THEN content
    ELSE IF Top(content).text = <<>> THEN content
    ELSE IF Top(Top(content).text) # Newline THEN content
    ELSE Append(Rest(content), TextNode(Rest(Top(content).text), Top(content).marks))

LinkCount(set) == Cardinality({i \in 1..Len(set) : set[i].type = "Link"})
NonLinkMarks(set) == SelectSeq(set, LAMBDA m : m.type # "Link")

\* a step that takes the End of a Link, and one that takes the Start of a
\* Link while a Link mark is open
LinkEndStep == TakesEvent /\ returned' = Unset /\ event' = End([name |-> "Link"])
NestedLinkStartStep ==
    /\ TakesEvent
    /\ event'.ev = "Start"
    /\ event'.tag.name = "Link"
    /\ LinkCount(mark_set) > 0

\* C23 as stated: after a Link End the ambient marks hold no Link mark and
\* the other marks are unchanged, and at most one Link mark is in the ambient
\* marks at any time
C23_SingleLinkAsStated ==
    [][/\ LinkEndStep =>
              /\ LinkCount(mark_set') = 0
              /\ NonLinkMarks(mark_set') = NonLinkMarks(mark_set)
       /\ LinkCount(mark_set') <= 1]_vars

\* C23: after a Link End the ambient marks hold no Link mark, whatever href
\* and title the open Link marks carry, and the marks of the other types are
\* unchanged; the ambient marks hold at most one Link mark as long as the
\* events open no Link while a Link is open
C23_LinkEndRemovesEveryLink ==
    [][/\ LinkEndStep =>
              /\ LinkCount(mark_set') = 0
              /\ NonLinkMarks(mark_set') = NonLinkMarks(mark_set)
              /\ mark_set' = NonLinkMarks(mark_set)
       /\ (LinkCount(mark_set) <= 1 /\ ~NestedLinkStartStep) => LinkCount(mark_set') <= 1]_vars

\* C23 witness: a Link End that has removed the open Link mark and kept the
\* Strong mark opened before it
C23_Witness ==
    /\ returned = Unset
    /\ event = End([name |-> "Link"])
    /\ nevents = 3
    /\ mark_set = <<MarkStrong>>

(***************************************************************************)
(* Claims about the transition table of the content grammar                *)
(***************************************************************************)
\* the child types that a symbol accepts and the symbol it moves to
AcceptedTypes(symbol) ==
    CASE symbol = "Star" -> MarkdownNodeType
      [] symbol = "InlineStar" -> {type \in MarkdownNodeType : ~is_block(type)}
      [] symbol \in {"BlockPlus", "BlockStar"} -> {type \in MarkdownNodeType : is_block(type)}
      [] symbol = "OrTextImageStar" -> {"Text", "Image"}
      [] symbol = "TextStar" -> {"Text"}
      [] symbol \in {"ListItemPlus", "ListItemStar"} -> {"ListItem"}
      [] symbol = "ParagraphBlockStar" -> {"Paragraph"}
      [] symbol = "Empty" -> {}
TargetSymbol(symbol) ==
    CASE symbol \in {"BlockPlus", "BlockStar", "ParagraphBlockStar"} -> "BlockStar"
      [] symbol \in {"ListItemPlus", "ListItemStar"} -> "ListItemStar"
      [] OTHER -> symbol

\* the call matches a range of one child
IsOneChildCall ==
    /\ content_call.op = "match_fragment_range"
    /\ content_call.end = content_call.start + 1

\* C24: match_type is the fixed transition table: Star accepts every child
\* type and stays Star; InlineStar accepts exactly the inline types and stays;
\* BlockPlus and BlockStar accept exactly the block types and move to
\* BlockStar; OrTextImageStar accepts exactly Text and Image; TextStar accepts
\* exactly Text; ListItemPlus and ListItemStar accept exactly ListItem and move
\* to ListItemStar; ParagraphBlockStar accepts exactly Paragraph and moves to
\* BlockStar; Empty rejects every child type
C24_TransitionTable ==
    (content_ret # Unset /\ IsOneChildCall) =>
        LET type == content_call.fragment[content_call.end].type
        IN  content_ret[1] =
                IF type \in AcceptedTypes(content_call.self)
                THEN TargetSymbol(content_call.self)
                ELSE None

\* C24 witness: ParagraphBlockStar has refused a first child that is a block
\* but no Paragraph
C24_Witness ==
    /\ IsOneChildCall
    /\ content_call.self = "ParagraphBlockStar"
    /\ content_call.fragment[content_call.end].type = "CodeBlock"
    /\ content_ret = Returned(None)

(***************************************************************************)
(* Claims about what the printer writes for one event                      *)
(***************************************************************************)
\* print_event has returned from an event of this kind in this step
PrintsEvent(kind) == printed' # printed /\ Top(printed').ev = kind
PrintsTag(kind, name) == PrintsEvent(kind) /\ Top(printed').tag.name = name

\* the text that this step has appended to the buffer in use
AppendsText(s) == buffer(printer') = buffer(printer) \o s

\* the length of the longest run of consecutive backticks in a text
LongestBacktickRun(text) ==
    LET runs == {n \in 0..Len(text) :
                    \E i \in 1..(Len(text) - n + 1) :
                        \A j \in i..(i + n - 1) : text[j] = Backtick}
    IN  CHOOSE n \in runs : \A m \in runs : m <= n

\* C28: inline code is wrapped in one backtick more than its longest run of
\* backticks: for a Code event whose text has a longest run of k backticks,
\* the printer writes k + 1 backticks, the text, and k + 1 backticks
C28_InlineCodeBackticks ==
    [][PrintsEvent("Code") =>
           LET code == Top(printed').text
               fence == [i \in 1..(LongestBacktickRun(code) + 1) |-> Backtick]
           IN  AppendsText(fence \o code \o fence)]_vars

\* C28 witness: a text with a run of one and a run of two backticks, printed
\* between three backticks
C28_Witness ==
    /\ printed = <<TextEvent("Code", <<Backtick, "a", Backtick, Backtick>>)>>
    /\ printer.buffer = <<Backtick, Backtick, Backtick, Backtick, "a", Backtick, Backtick,
                          Backtick, Backtick, Backtick>>

\* a title without a character that is not white space
IsBlank(title) == ~\E i \in 1..Len(title) : title[i] \notin {" ", Newline}

BlockQuoteOpen ==
    \E i \in 1..Len(printer.tag_stack) : printer.tag_stack[i].tag.name = "BlockQuote"

\* C30: while a BlockQuote tag is open, at any depth of the tag stack, a Text
\* event whose text ends with a newline is followed at once in the output by
\* the prefix "> "; outside a blockquote, and after a text that does not end
\* with a newline, only the text is written
C30_BlockQuotePrefix ==
    [][PrintsEvent("Text") =>
           LET text == Top(printed').text
           IN  AppendsText(IF BlockQuoteOpen /\ text # <<>> /\ text[Len(text)] = Newline
                           THEN text \o <<">", " ">>
                           ELSE text)]_vars

\* C30 witness: a text ending with a newline printed in a Paragraph inside a
\* BlockQuote, so that the BlockQuote is not the innermost open tag
C30_Witness ==
    /\ printed = <<Start([name |-> "BlockQuote"]), Start([name |-> "Paragraph"]),
                   TextEvent("Text", <<"a", Newline>>)>>
    /\ printer.buffer = <<">", " ", "a", Newline, ">", " ">>

\* the text that a pending separation stands for
Separation(strategy) ==
    CASE strategy = "None" -> <<>>
      [] strategy = "Once" -> <<Newline>>
      [] strategy = "Block" -> <<Newline, Newline>>

\* the events whose arm writes through print_newline or print_block
BlockOpening(e) ==
    \/ e.ev \in {"Html", "Rule"}
    \/ /\ e.ev = "Start"
       /\ e.tag.name \in {"Paragraph", "Heading", "BlockQuote", "CodeBlock", "List", "Item",
                          "FootnoteDefinition", "Table", "MetadataBlock"}

\* what a block-opening event other than Start(Item) writes after the
\* separation
OpeningText(e) ==
    CASE e.ev = "Html" -> e.text
      [] e.ev = "Rule" -> <<"-", "-", "-">>
      [] e.tag.name = "Heading" -> [i \in 1..e.tag.level |-> "#"] \o <<" ">>
      [] e.tag.name = "BlockQuote" -> <<">", " ">>
      [] e.tag.name = "CodeBlock" -> e.tag.params \o <<Newline>>
      [] e.tag.name = "FootnoteDefinition" -> <<"[", "^">> \o e.tag.label \o <<"]", ":", " ">>
      [] e.tag.name = "MetadataBlock" -> <<"-", "-", "-", Newline>>
      [] OTHER -> <<>>

\* the closing tags that leave a separation pending and write nothing
ClosesBlock(e) ==
    /\ e.ev = "End"
    /\ e.tag.name \in {"Paragraph", "Heading", "BlockQuote", "List", "Item",
                       "FootnoteDefinition"}

\* one step of the newline policy, for the event e that the step prints
NewlineStep(e) ==
    LET pending == Separation(printer.separate_by_newline)
        before == buffer(printer)
        after == buffer(printer')
    IN  /\ BlockOpening(e) =>
            /\ printer'.separate_by_newline =
                   CASE e.ev = "Rule" -> "Block"
                     [] e.ev = "Start" /\ e.tag.name = "Item" -> "Once"
                     [] OTHER -> "None"
            /\ IF e.ev = "Start" /\ e.tag.name = "Table"
               THEN printer.table_context = NoTable => printer'.buffer = before \o pending
               ELSE IF e.ev = "Start" /\ e.tag.name = "Item"
               THEN /\ Len(after) > Len(before) + Len(pending)
                    /\ SubSeq(after, 1, Len(before) + Len(pending)) = before \o pending
                    /\ \A i \in Len(before) + Len(pending) + 1..Len(after) :
                           after[i] # Newline
               ELSE after = before \o pending \o OpeningText(e)
        /\ ClosesBlock(e) =>
            /\ after = before
            /\ printer'.separate_by_newline \in {"Once", "Block"}
        /\ ~BlockOpening(e) /\ e.ev # "End" =>
            printer'.separate_by_newline = printer.separate_by_newline

TableOpen(p) == \E i \in 1..Len(p.tag_stack) : p.tag_stack[i].tag.name = "Table"

\* the step prints the End tag of a TableCell
CellEndStep == printed' = Append(printed, End([name |-> "TableCell"]))

\* what has been printed in the cell that a TableCell End closes: the text
\* of the Text event of the cell, when it has one
CellContent == IF LastPrinted.ev = "Text" THEN LastPrinted.text ELSE <<>>

\* the range that a TableCell End step has appended to a list of ranges
RecordsCell(ranges_before, ranges_after) ==
    /\ Len(ranges_after) = Len(ranges_before) + 1
    /\ SubSeq(ranges_after, 1, Len(ranges_before)) = ranges_before
    /\ LET range == ranges_after[Len(ranges_after)]
           side == printer'.table_context[1].buffer
       IN  /\ range.end = Len(side)
           /\ range.start = range.end - Len(CellContent)
           /\ Slice(side, range) = CellContent

RECURSIVE OpenListOrder(_, _, _)
OpenListOrder(events, i, depth) ==
    IF i = 0 THEN <<>>
    ELSE LET e == events[i]
         IN  IF e.ev = "End" /\ e.tag.name = "List"
             THEN OpenListOrder(events, i - 1, depth + 1)
             ELSE IF e.ev = "Start" /\ e.tag.name = "List"
             THEN IF depth = 0 THEN e.tag.ord ELSE OpenListOrder(events, i - 1, depth - 1)
             ELSE OpenListOrder(events, i - 1, depth)

\* the lists started and not ended among the events
OpenListCount(events) ==
    Cardinality({i \in 1..Len(events) : events[i].ev = "Start" /\ events[i].tag.name = "List"})
        - Cardinality({i \in 1..Len(events) :
                           events[i].ev = "End" /\ events[i].tag.name = "List"})

\* n + k on decimal digits, without a width
RECURSIVE NumberPlus(_, _)
NumberPlus(n, k) == IF k = 0 THEN n ELSE NumberIncrement(NumberPlus(n, k - 1))

\* the marker of the item that comes next in the innermost open list
ItemMarker ==
    LET order == OpenListOrder(printed, Len(printed), 0)
        k == ItemsStarted(printed, Len(printed), 0)
    IN  IF order = <<>> THEN <<"-", " ">>
        ELSE to_string(NumberPlus(order[1], k)) \o <<".", " ">>

\* the step hands Start(Item) to the printer, which prints it or panics
ItemStartStep ==
    /\ OpenTag("List")
    /\ printer'.panicked \/ PrintsTag("Start", "Item")

\* the item is printed as the claim says
ItemPrinted ==
    /\ ~printer'.panicked
    /\ AppendsText(Separation(printer.separate_by_newline)
                       \o [i \in 1..2 * (OpenListCount(printed) - 1) |-> " "]
                       \o ItemMarker)

\* C25: item k (k = 0, 1, ...) of an ordered list with starting order n is
\* printed with the ordinal n + k and ". ", whatever nested list was printed
\* between its items; an item of an unordered list is printed with "- ";
\* every marker comes after 2 * (open lists - 1) spaces
C25_ListRendering == [][ItemStartStep => ItemPrinted]_vars

\* the same for the items of the lists that do not start at the largest order
ListRenderingBelowMax ==
    [][ItemStartStep /\ OpenListOrder(printed, Len(printed), 0) # <<U64Max>>
           => ItemPrinted]_vars

\* an item of a nested list has been printed between item 0 and item 1 of an
\* ordered list that starts at 9, and item 1 has the ordinal 10
NestedListBetweenItems ==
    /\ Len(printed) = 9
    /\ printed[1] = Start([name |-> "List", ord |-> <<<<9>>>>])
    /\ printed[3] = Start([name |-> "List", ord |-> <<>>])
    /\ printed[4] = Start([name |-> "Item"])
    /\ printed[9] = Start([name |-> "Item"])
    /\ printer.buffer = <<"9", ".", " ", Newline, " ", " ", "-", " ", "a", Newline,
                          "1", "0", ".", " ">>

(***************************************************************************)
(* Claims about the classification of nodes                                *)
(***************************************************************************)
\* C35: for every node variant n, n.is_block() is n.type().is_block(), so
\* that the categories block and inline of match_type agree with the
\* classification of the node
C35_BlockClassificationAgrees ==
    /\ content_call.op = "is_block" /\ content_ret # Unset
           => content_ret = Returned(is_block(node_type(CalledNode)))
    /\ content_call.op = "type" /\ content_ret # Unset
           => content_ret = Returned(content_call.self)

(***************************************************************************)
(* Claims about the fence of a code block                                  *)
(***************************************************************************)
\* the Text events printed since the Start of the innermost open code block,
\* among the first i events
RECURSIVE OwnTexts(_, _)
OwnTexts(events, i) ==
    IF i = 0 \/ events[i].ev = "Start" THEN <<>>
    ELSE OwnTexts(events, i - 1) \o (IF events[i].ev = "Text" THEN <<events[i].text>> ELSE <<>>)

\* the longest run of backticks inside one of the texts
RECURSIVE LongestRunOf(_, _)
LongestRunOf(texts, n) ==
    IF n = 0 THEN 0 ELSE Max(LongestBacktickRun(texts[n]), LongestRunOf(texts, n - 1))

\* the texts one after the other
RECURSIVE Joined(_, _)
Joined(texts, n) == IF n = 0 THEN <<>> ELSE Joined(texts, n - 1) \o texts[n]

\* a fenced code block is open on the tag stack
FencedOpen ==
    \E i \in 1..Len(printer.tag_stack) : IsFencedCodeBlock(printer.tag_stack[i].tag)

\* C38: the fence of a code block depends on the block's own text only: the
\* counter of backticks is 0 after every fenced CodeBlock Start, no event but
\* a Text printed while a fenced code block is open changes it otherwise,
\* and the fences that CodeBlock End writes around the block are as long as
\* the Text events of the block alone make them
C38_FenceOfOwnText ==
    [][printed' # printed =>
          LET e == Top(printed')
              own == OwnTexts(printed, Len(printed))
              fence == [i \in 1..Max(LongestRunOf(own, Len(own)), 2) + 1 |-> Backtick]
              block == fence \o Top(printer.tag_stack).tag.params \o <<Newline>>
                           \o Joined(own, Len(own)) \o fence
          IN  /\ e.ev = "Start" /\ IsFencedCodeBlock(e.tag) => printer'.codeblock_backticks = 0
              /\ printer'.codeblock_backticks # printer.codeblock_backticks =>
                     \/ e.ev = "Start" /\ IsFencedCodeBlock(e.tag)
                     \/ e.ev = "Text" /\ FencedOpen
              /\ e = End([name |-> "CodeBlock"]) =>
                     /\ Len(printer'.buffer) >= Len(block)
                     /\ SubSeq(printer'.buffer, Len(printer'.buffer) - Len(block) + 1,
                               Len(printer'.buffer)) = block]_vars

\* C38 witness: a second code block, without a backtick, has been closed
\* with fences of three backticks after a code block with a run of two
\* backticks, which has fences of three as well
C38_Witness ==
    /\ Len(printed) = 5
    /\ printed[2] = TextEvent("Text", <<Backtick, Backtick>>)
    /\ printed[3] = End([name |-> "CodeBlock"])
    /\ printed[4].ev = "Start"
    /\ printed[5] = End([name |-> "CodeBlock"])
    /\ printer.buffer = <<Backtick, Backtick, Backtick, "r", Newline, Backtick, Backtick,
                          Backtick, Backtick, Backtick, Newline, Newline,
                          Backtick, Backtick, Backtick, "r", Newline,
                          Backtick, Backtick, Backtick>>

(***************************************************************************)
(* Claims about to_markdown as a whole                                     *)
(***************************************************************************)
\* C31: rendering is total on the trees all of whose nodes satisfy
\* valid_content, a Doc that directly holds a ListItem, a TableRow or a
\* TableCell among them: the printer never reaches an abort
C31_RenderingIsTotal ==
    TreeSatisfiesGrammar(doc) => ~printer.panicked

\* the Start tags that are open after the first n events, innermost last;
\* <<"mismatch">> once an End has not closed the innermost open Start
RECURSIVE OpenStarts(_, _)
OpenStarts(events, n) ==
    IF n = 0 THEN <<>>
    ELSE LET before == OpenStarts(events, n - 1)
             e == events[n]
         IN  IF before = <<"mismatch">> THEN before
             ELSE IF e.ev = "Start" THEN Append(before, e.tag.name)
             ELSE IF e.ev = "End"
                  THEN IF before # <<>> /\ before[Len(before)] = e.tag.name
                       THEN SubSeq(before, 1, Len(before) - 1)
                       ELSE <<"mismatch">>
                  ELSE before

\* the tags that the printer has no arm for
Unprintable(tag) ==
    \/ tag.name = "HtmlBlock"
    \/ tag.name = "CodeBlock" /\ tag.kind # "Fenced"
    \/ tag.name = "MetadataBlock" /\ tag.kind # "YamlStyle"

\* C32: in the serializer's stream, block tags and mark tags together, every
\* End closes the Start of its kind that was opened last and is still open,
\* so that the printer's pop on an End finds the matching Start tag on top of
\* a tag stack that is not empty; the serializer emits no indented
\* CodeBlock, no HtmlBlock and no MetadataBlock of the pluses style
C32_StreamIsWellNested ==
    /\ [](OpenStarts(emitted, Len(emitted)) # <<"mismatch">>)
    /\ [](\A i \in 1..Len(emitted) :
              emitted[i].ev = "Start" => ~Unprintable(emitted[i].tag))
    /\ [][emitted' # emitted /\ Top(emitted').ev = "End" =>
              /\ printer.tag_stack # <<>>
              /\ Top(printer.tag_stack).tag.name = Top(emitted').tag.name]_vars

\* C32 witness: the stream of a Blockquote of two paragraphs, whose texts
\* carry Strong and Em and then Em alone, has been printed to its end
C32_Witness ==
    /\ exhausted
    /\ printer.tag_stack = <<>>
    /\ doc.content # <<>>
    /\ doc.content[1].type = "Blockquote"
    /\ Len(doc.content[1].content) = 2
    /\ \E i \in 1..Len(emitted) : emitted[i] = End([name |-> "Strong"])
    /\ \E i \in 1..Len(emitted) : emitted[i] = End([name |-> "Emphasis"])
    /\ Top(emitted) = End([name |-> "BlockQuote"])

\* the step hands one more event to the printer, and it is the Start or the
\* End of a node that process_attr_node serializes
EmitsNodeTag ==
    /\ emitted' # emitted
    /\ Top(emitted').ev \in {"Start", "End"}
    /\ Top(emitted').tag.name \notin MarkTagNames

\* the step hands the End of a mark to the printer
EmitsMarkEnd ==
    /\ emitted' # emitted
    /\ Top(emitted').ev = "End"
    /\ Top(emitted').tag.name \in MarkTagNames

\* C33: whenever the serializer emits the Start or the End of a block or
\* attributed node its stack of open marks is empty, before and after the
\* step; the marks that were open have been closed before, each step that
\* emits the End of a mark taking exactly the innermost mark off the stack
C33_NoMarkAcrossBlockBoundary ==
    /\ [][EmitsNodeTag => serializer.marks = <<>> /\ serializer'.marks = <<>>]_vars
    /\ [][EmitsMarkEnd =>
              /\ serializer.marks # <<>>
              /\ serializer'.marks = Rest(serializer.marks)
              /\ Top(emitted') = End(to_end(mark_tag(Top(serializer.marks))))]_vars

\* C33 witness: a paragraph whose last text carries Strong and Em has been
\* closed: End Emphasis and End Strong were emitted, one a step, and
\* then the End of the Paragraph
C33_Witness ==
    /\ Len(emitted) >= 5
    /\ emitted[Len(emitted)] = End([name |-> "Paragraph"])
    /\ emitted[Len(emitted) - 1] = End([name |-> "Strong"])
    /\ emitted[Len(emitted) - 2] = End([name |-> "Emphasis"])
    /\ serializer.marks = <<>>

\* the payloads of the events of a stream that carry text, in stream order
EmittedTexts(events) ==
    LET texts == SelectSeq(events, LAMBDA e : e.ev \in TextCarrying)
    IN  [i \in 1..Len(texts) |-> texts[i].text]

\* the texts of the Text nodes of a tree in pre-order, with the newline at the
\* end of each CodeBlock
TextsInDocumentOrder(tree) ==
    [i \in 1..Len(TextNodesOf(tree)) |-> TextNodesOf(tree)[i].text]

\* seq is the beginning of whole
IsPrefixOf(seq, whole) ==
    Len(seq) <= Len(whole) /\ seq = SubSeq(whole, 1, Len(seq))

\* the trees whose runs are followed to their end: the shapes of
\* SerializerTrees over the children of RenderFragments
FairTrees ==
    UNION {{Block("Doc", children),
            Block("Doc", <<Block("Paragraph", children)>>),
            Block("Doc", <<AttrNode("CodeBlock", AttrsCodeBlock(<<"r">>), children)>>),
            Block("Doc", <<AttrNode("BulletList", AttrsBulletList,
                                    <<Block("ListItem", <<Block("Paragraph", children)>>)>>),
                           Leaf("HorizontalRule", NoAttrs)>>)}
           : children \in RenderFragments}
InitSerializerFair ==
    /\ doc \in FairTrees
    /\ serializer = new(doc)
    /\ emitted = <<>>
    /\ exhausted = FALSE
    /\ ContentIdle /\ CompatIdle /\ ParserIdle /\ PrinterInit /\ BuilderIdle
\* the for loop of Printer::print calls next() again as long as it got an event
SpecSerializerFair ==
    InitSerializerFair /\ [][SerializerNext]_vars /\ WF_vars(SerializerNext)

\* C34: the serializer terminates and visits the tree in document order:
\* next() returns None after finitely many calls, and then the traversal stack
\* and the queue of pending events are empty; a call returns at most one
\* event; the payloads of the events that carry text are at every moment the
\* first texts of the tree's Text nodes in pre-order, and all of them, each
\* once, when next() has returned None, with one newline at the end of each
\* CodeBlock
C34_TerminatesInDocumentOrder ==
    /\ <>exhausted
    /\ [][exhausted' => serializer'.inner = <<>> /\ serializer'.stack = <<>>]_vars
    /\ [][Len(emitted') <= Len(emitted) + 1]_vars
    /\ [][IsPrefixOf(EmittedTexts(emitted'), TextsInDocumentOrder(doc))]_vars
    /\ [][exhausted' => EmittedTexts(emitted') = TextsInDocumentOrder(doc)]_vars

\* C34 witness: next() has returned None for a CodeBlock with two Text nodes of
\* different marks, after their two texts and the newline of the block
C34_Witness ==
    /\ exhausted
    /\ doc.content # <<>>
    /\ doc.content[1].type = "CodeBlock"
    /\ Len(doc.content[1].content) = 2
    /\ doc.content[1].content[1].type = "Text"
    /\ doc.content[1].content[2].type = "Text"
    /\ doc.content[1].content[1].marks # doc.content[1].content[2].marks
    /\ EmittedTexts(emitted) = <<<<"a">>, <<"a">>, <<Newline>>>>

\* every line of the text begins with "> "; a line without a character, and
\* the end of the text after a line break, need no prefix
LinesQuoted(text) ==
    /\ Len(text) >= 1 => text[1] # Newline
    /\ Len(text) >= 2 => text[1] = ">" /\ text[2] = " "
    /\ \A i \in 1..(Len(text) - 1) :
           text[i] = Newline =>
               \/ text[i + 1] = Newline
               \/ i + 2 <= Len(text) /\ text[i + 1] = ">" /\ text[i + 2] = " "

\* C36: every line that the printer writes between the Start of a BlockQuote
\* and its End begins with "> ", the first line of a second block in the quote
\* and the lines of a code block in the quote included; stated for a quote
\* that opens the document and is still open, so that the whole output lies
\* inside the quote
C36_QuotedLinesPrefixed ==
    (/\ printed # <<>>
     /\ printed[1] = Start([name |-> "BlockQuote"])
     /\ BlockQuoteOpen) => LinesQuoted(printer.buffer)

\* C37: the marker of a list item and the item's first content are on one
\* line: the Start of a Paragraph that comes right after the Start of an Item
\* writes nothing, no line break between the marker and the paragraph's text
C37_MarkerAndContentOnOneLine ==
    [][(/\ printed # <<>>
        /\ printed' # printed
        /\ Top(printed) = Start([name |-> "Item"])
        /\ Top(printed') = Start([name |-> "Paragraph"]))
           => printer'.buffer = printer.buffer]_vars

====
